---------------------------- MODULE Spec2Model ----------------------------
(* A model of ramalama's command-line layer (ramalama/cli.py):             *)
(* configuration merge, transport resolution (New), and the orchestration  *)
(* commands push, rm, stop and list.  One process run is one command: the  *)
(* command's handler runs to completion as one action.  The backends, the  *)
(* container engine, the shortname table and the filesystem are external;  *)
(* their answers are drawn nondeterministically and recorded in `ext`.     *)
EXTENDS Integers, Sequences, FiniteSets, TLC

VARIABLES
  config,   \* the module-level `config` dict (cli.py:117)
  cmd,      \* the handler that ran last ("" before any)
  args,     \* the parsed-arguments record the handler received
  ext,      \* what the external collaborators answered during the handler
  outcome,  \* how the handler ended: OK or the exception it raised
  calls,    \* the external calls the handler made, in order
  printed   \* the lines the handler printed to stdout, in order

vars == <<config, cmd, args, ext, outcome, calls, printed>>

-----------------------------------------------------------------------------
(* Python values.  Strings, booleans and None are kept apart by a tag.     *)

PyStr(s) == [t |-> "str", v |-> s]
PyTrue == [t |-> "bool", v |-> "True"]
PyFalse == [t |-> "bool", v |-> "False"]
PyNone == [t |-> "none", v |-> "None"]
PyBool(b) == IF b THEN PyTrue ELSE PyFalse

\* Python truthiness of a value: `if x:`
Truthy(x) ==
  CASE x.t = "str" -> x.v # ""
    [] x.t = "bool" -> x.v = "True"
    [] OTHER -> FALSE

\* str.startswith
StartsWith(s, p) == Len(s) >= Len(p) /\ SubSeq(s, 1, Len(p)) = p

\* the `in` operator on strings: p in s
Contains(s, p) ==
  \E i \in 1..(Len(s) - Len(p) + 1) : SubSeq(s, i, i + Len(p) - 1) = p

Upper == "ABCDEFGHIJKLMNOPQRSTUVWXYZ"
Lower == "abcdefghijklmnopqrstuvwxyz"

\* str.lower, one character
LowerChar(c) ==
  IF \E i \in 1..Len(Upper) : SubSeq(Upper, i, i) = c
  THEN LET i == CHOOSE j \in 1..Len(Upper) : SubSeq(Upper, j, j) = c
       IN SubSeq(Lower, i, i)
  ELSE c

RECURSIVE StrLower(_)
\* str.lower
StrLower(s) ==
  IF s = "" THEN ""
  ELSE LowerChar(SubSeq(s, 1, 1)) \o StrLower(SubSeq(s, 2, Len(s)))

\* dict.get(k, default)
Get(d, k, default) == IF k \in DOMAIN d THEN d[k] ELSE default

\* d[k] = v
Put(d, k, v) == [x \in (DOMAIN d) \cup {k} |-> IF x = k THEN v ELSE d[x]]

\* os.getenv(name, default): the variable's value when it is set
Getenv(env, name, default) ==
  IF name \in DOMAIN env THEN PyStr(env[name]) ELSE default

EmptyDict == [k \in {} |-> PyNone]

-----------------------------------------------------------------------------
(* More of Python's string operations.                                     *)

\* the characters of names, in code-point order
Ascii ==
  "\n #%+,-./0123456789:=@ABCDEFGHIJKLMNOPQRSTUVWXYZ_abcdefghijklmnopqrstuvwxyz"

\* the code-point rank of a one-character string
Ord(c) == CHOOSE i \in 1..Len(Ascii) : SubSeq(Ascii, i, i) = c

RECURSIVE StrLess(_, _)
\* a < b on Python strings: lexicographic by code point
StrLess(a, b) ==
  IF b = "" THEN FALSE
  ELSE IF a = "" THEN TRUE
  ELSE LET x == Ord(SubSeq(a, 1, 1))
           y == Ord(SubSeq(b, 1, 1))
       IN IF x # y THEN x < y
          ELSE StrLess(SubSeq(a, 2, Len(a)), SubSeq(b, 2, Len(b)))

\* str.upper, one character
UpperChar(c) ==
  IF \E i \in 1..Len(Lower) : SubSeq(Lower, i, i) = c
  THEN LET i == CHOOSE j \in 1..Len(Lower) : SubSeq(Lower, j, j) = c
       IN SubSeq(Upper, i, i)
  ELSE c

RECURSIVE StrUpper(_)
\* str.upper
StrUpper(s) ==
  IF s = "" THEN ""
  ELSE UpperChar(SubSeq(s, 1, 1)) \o StrUpper(SubSeq(s, 2, Len(s)))

\* s.replace(old, new, 1): the first occurrence only
Replace1(s, old, new) ==
  IF Contains(s, old)
  THEN LET i == CHOOSE k \in 1..(Len(s) - Len(old) + 1) :
                  /\ SubSeq(s, k, k + Len(old) - 1) = old
                  /\ \A j \in 1..(k - 1) : SubSeq(s, j, j + Len(old) - 1) # old
       IN SubSeq(s, 1, i - 1) \o new \o SubSeq(s, i + Len(old), Len(s))
  ELSE s

Digits == "0123456789"

RECURSIVE IntToStr(_)
\* str(n) of a non-negative int
IntToStr(n) ==
  IF n < 10 THEN SubSeq(Digits, n + 1, n + 1)
  ELSE IntToStr(n \div 10) \o SubSeq(Digits, (n % 10) + 1, (n % 10) + 1)

RECURSIVE Spaces(_)
Spaces(n) == IF n <= 0 THEN "" ELSE " " \o Spaces(n - 1)

\* f"{s:<{w}}": s left-aligned in a field of width w
PadRight(s, w) == s \o Spaces(w - Len(s))

IsSpace(c) == c = " " \/ c = "\n"

RECURSIVE LStrip(_)
LStrip(s) ==
  IF s # "" /\ IsSpace(SubSeq(s, 1, 1)) THEN LStrip(SubSeq(s, 2, Len(s))) ELSE s

RECURSIVE RStrip(_)
RStrip(s) ==
  IF s # "" /\ IsSpace(SubSeq(s, Len(s), Len(s)))
  THEN RStrip(SubSeq(s, 1, Len(s) - 1)) ELSE s

\* str.strip
Strip(s) == RStrip(LStrip(s))

RECURSIVE Split(_, _)
\* s.split(sep), sep one character
Split(s, sep) ==
  IF Contains(s, sep)
  THEN LET i == CHOOSE k \in 1..Len(s) :
                  /\ SubSeq(s, k, k) = sep
                  /\ \A j \in 1..(k - 1) : SubSeq(s, j, j) # sep
       IN <<SubSeq(s, 1, i - 1)>> \o Split(SubSeq(s, i + 1, Len(s)), sep)
  ELSE <<s>>

RECURSIVE Join(_, _)
\* sep.join(lines)
Join(lines, sep) ==
  IF lines = <<>> THEN ""
  ELSE IF Len(lines) = 1 THEN lines[1]
  ELSE lines[1] \o sep \o Join(Tail(lines), sep)

Max(a, b) == IF a >= b THEN a ELSE b

-----------------------------------------------------------------------------
(* Configuration: load_config and load_and_merge_config.                   *)
(* A configuration file is modelled by its [ramalama] table, a function    *)
(* from keys to values.  The filesystem `fs` gives, for the file named by  *)
(* RAMALAMA_CONFIG and for each of the four fixed paths, the file's table  *)
(* (a one-element sequence) or <<>> when the file does not exist, and the  *)
(* files of the path's .d directory in directory order.                    *)

NumPaths == 4

\* TOMLParser.parse_file: the parser accumulates what it has parsed and
\* returns the accumulated table; a later file's keys overwrite earlier ones
parse_file(data, table) ==
  [k \in (DOMAIN data) \cup (DOMAIN table) |->
     IF k \in DOMAIN table THEN table[k] ELSE data[k]]

\* a file of a .d directory: its name and its table
ConfFile(name, table) == [name |-> name, table |-> table]

EndsWith(s, p) == Len(s) >= Len(p) /\ SubSeq(s, Len(s) - Len(p) + 1, Len(s)) = p

RECURSIVE glob_conf(_)
\* Path(path + ".d").glob("*.conf"): the files whose name ends in .conf, in
\* directory order
glob_conf(files) ==
  IF files = <<>> THEN <<>>
  ELSE IF EndsWith(Head(files).name, ".conf")
  THEN <<Head(files)>> \o glob_conf(Tail(files))
  ELSE glob_conf(Tail(files))

RECURSIVE insert_by_filename(_, _)
insert_by_filename(sorted, f) ==
  IF sorted = <<>> THEN <<f>>
  ELSE IF StrLess(f.name, Head(sorted).name) THEN <<f>> \o sorted
  ELSE <<Head(sorted)>> \o insert_by_filename(Tail(sorted), f)

RECURSIVE sort_by_filename(_, _)
\* sorted(...) of the paths of one directory
sort_by_filename(files, done) ==
  IF files = <<>> THEN done
  ELSE sort_by_filename(Tail(files), insert_by_filename(done, Head(files)))

RECURSIVE parse_each(_, _)
parse_each(data, files) ==
  IF files = <<>> THEN data
  ELSE parse_each(parse_file(data, Head(files).table), Tail(files))

\* a variant of parse_dropins that parses the files in directory order
parse_dropins_unsorted(data, files) == parse_each(data, glob_conf(files))

\* for conf_file in sorted(Path(path + ".d").glob("*.conf")): parse_file
parse_dropins(data, files) ==
  parse_each(data, sort_by_filename(glob_conf(files), <<>>))

RECURSIVE load_paths(_, _, _)
\* the loop over config_paths, from path i on
load_paths(fs, i, data) ==
  IF i > NumPaths THEN data
  ELSE LET main == IF fs.main[i] # <<>>
                   THEN parse_file(data, fs.main[i][1]) ELSE data
       IN load_paths(fs, i + 1, parse_dropins(main, fs.dropins[i]))

load_config(env, fs) ==
  LET config_path == Getenv(env, "RAMALAMA_CONFIG", PyNone)
  IN IF Truthy(config_path)
     THEN parse_file(EmptyDict, fs.explicit)
     ELSE load_paths(fs, 1, EmptyDict)

\* use_container(); conman is what container_manager() returns
use_container(env, conman) ==
  LET use == Getenv(env, "RAMALAMA_IN_CONTAINER", PyNone)
  IN IF Truthy(use)
     THEN PyBool(StrLower(use.v) = "true")
     ELSE PyBool(conman # PyNone)

\* get_store()
get_store(euid) ==
  IF euid = 0 THEN "/var/lib/ramalama" ELSE "/home/user/.local/share/ramalama"

\* default_image() of ramalama.common
default_image == "quay.io/ramalama/ramalama"

\* a variant without the nocontainer branch: the environment overlay only
load_and_merge_config_no_nocontainer(env, fs, conman, euid) ==
  LET c0 == load_config(env, fs)
      c1 == Put(c0, "container",
                Getenv(env, "RAMALAMA_IN_CONTAINER",
                       Get(c0, "container", use_container(env, conman))))
      c2 == Put(c1, "engine",
                Getenv(env, "RAMALAMA_CONTAINER_ENGINE", Get(c1, "engine", conman)))
      c3 == Put(c2, "image",
                Getenv(env, "RAMALAMA_IMAGE", Get(c2, "image", PyStr(default_image))))
      c4 == Put(c3, "nocontainer", Get(c3, "nocontainer", PyFalse))
      c6 == Put(c4, "carimage",
                Get(c4, "carimage", PyStr("registry.access.redhat.com/ubi9-micro:latest")))
      c7 == Put(c6, "runtime", Get(c6, "runtime", PyStr("llama.cpp")))
      c8 == Put(c7, "store",
                Getenv(env, "RAMALAMA_STORE", Get(c7, "store", PyStr(get_store(euid)))))
  IN Put(c8, "transport",
         Getenv(env, "RAMALAMA_TRANSPORT", Get(c8, "transport", PyStr("ollama"))))

\* a variant that reads the environment the way use_container does: an
\* empty variable counts as unset
load_and_merge_config_nonempty(env, fs, conman, euid) ==
  LET E(name, default) ==
        IF Truthy(Getenv(env, name, PyNone)) THEN PyStr(env[name]) ELSE default
      c0 == load_config(env, fs)
      c1 == Put(c0, "container",
                E("RAMALAMA_IN_CONTAINER",
                  Get(c0, "container", use_container(env, conman))))
      c2 == Put(c1, "engine", E("RAMALAMA_CONTAINER_ENGINE", Get(c1, "engine", conman)))
      c3 == Put(c2, "image", E("RAMALAMA_IMAGE", Get(c2, "image", PyStr(default_image))))
      c4 == Put(c3, "nocontainer", Get(c3, "nocontainer", PyFalse))
      c5 == IF Truthy(c4["nocontainer"])
            THEN Put(c4, "container", PyFalse)
            ELSE Put(c4, "container",
                     E("RAMALAMA_IN_CONTAINER",
                       Get(c4, "container", use_container(env, conman))))
      c6 == Put(c5, "carimage",
                Get(c5, "carimage", PyStr("registry.access.redhat.com/ubi9-micro:latest")))
      c7 == Put(c6, "runtime", Get(c6, "runtime", PyStr("llama.cpp")))
      c8 == Put(c7, "store", E("RAMALAMA_STORE", Get(c7, "store", PyStr(get_store(euid)))))
  IN Put(c8, "transport", E("RAMALAMA_TRANSPORT", Get(c8, "transport", PyStr("ollama"))))

load_and_merge_config(env, fs, conman, euid) ==
  LET c0 == load_config(env, fs)
      c1 == Put(c0, "container",
                Getenv(env, "RAMALAMA_IN_CONTAINER",
                       Get(c0, "container", use_container(env, conman))))
      c2 == Put(c1, "engine",
                Getenv(env, "RAMALAMA_CONTAINER_ENGINE", Get(c1, "engine", conman)))
      c3 == Put(c2, "image",
                Getenv(env, "RAMALAMA_IMAGE", Get(c2, "image", PyStr(default_image))))
      c4 == Put(c3, "nocontainer", Get(c3, "nocontainer", PyFalse))
      c5 == IF Truthy(c4["nocontainer"])
            THEN Put(c4, "container", PyFalse)
            ELSE Put(c4, "container",
                     Getenv(env, "RAMALAMA_IN_CONTAINER",
                            Get(c4, "container", use_container(env, conman))))
      c6 == Put(c5, "carimage",
                Get(c5, "carimage", PyStr("registry.access.redhat.com/ubi9-micro:latest")))
      c7 == Put(c6, "runtime", Get(c6, "runtime", PyStr("llama.cpp")))
      c8 == Put(c7, "store",
                Getenv(env, "RAMALAMA_STORE", Get(c7, "store", PyStr(get_store(euid)))))
  IN Put(c8, "transport",
         Getenv(env, "RAMALAMA_TRANSPORT", Get(c8, "transport", PyStr("ollama"))))


-----------------------------------------------------------------------------
(* The inputs of the configuration merge.                                  *)

EnvVarValues ==
  [ RAMALAMA_IN_CONTAINER |-> {"", "true", "false"},
    RAMALAMA_CONTAINER_ENGINE |-> {"", "docker"},
    RAMALAMA_IMAGE |-> {"", "img:env"},
    RAMALAMA_STORE |-> {"", "/env/store"},
    RAMALAMA_TRANSPORT |-> {"", "oci"},
    RAMALAMA_CONFIG |-> {"/explicit.conf"} ]

\* the environments of the merge: each variable unset or set to one of its
\* values
ConfigEnvs ==
  { e \in UNION { [D -> UNION {EnvVarValues[n] : n \in D}] :
                  D \in SUBSET DOMAIN EnvVarValues } :
    \A n \in DOMAIN e : e[n] \in EnvVarValues[n] }

TableSystem == [ k \in {"transport", "engine"} |->
                 IF k = "transport" THEN PyStr("huggingface") ELSE PyStr("podman") ]
TableUser == [ k \in {"container", "store", "image"} |->
               CASE k = "container" -> PyTrue
                 [] k = "store" -> PyStr("/file/store")
                 [] OTHER -> PyStr("img:file") ]
TableNoContainer == [ k \in {"nocontainer", "container"} |-> PyTrue ]
TableNoContainerOnly == [ k \in {"nocontainer"} |-> PyTrue ]

Absent == <<>>
NoDropins == <<>>

\* the filesystems of the configuration merge: the explicit file, /etc's
\* file and the user's file vary; the two /usr paths do not exist
ConfigFSs ==
  { [ explicit |-> x,
      main |-> <<Absent, Absent, m3, m4>>,
      dropins |-> <<NoDropins, NoDropins, NoDropins, NoDropins>> ] :
    x \in {TableNoContainer},
    m3 \in {Absent, <<TableSystem>>},
    m4 \in {Absent, <<TableUser>>, <<TableNoContainer>>, <<TableNoContainerOnly>>} }

\* what container_manager() of ramalama.common finds
Conmans == {PyNone, PyStr("podman")}

Euids == {0, 1000}

NoArgs == [none |-> TRUE]
OK == [exc |-> "", msg |-> ""]

InitConfig ==
  /\ config = EmptyDict
  /\ cmd = ""
  /\ args = NoArgs
  /\ ext \in [env : ConfigEnvs, fs : ConfigFSs, conman : Conmans, euid : Euids]
  /\ outcome = OK
  /\ calls = <<>>
  /\ printed = <<>>

\* the module-level statement config = load_and_merge_config() (cli.py:117)
LoadAndMergeConfig ==
  /\ cmd = ""
  /\ config' = load_and_merge_config(ext.env, ext.fs, ext.conman, ext.euid)
  /\ cmd' = "load_and_merge_config"
  /\ UNCHANGED <<args, ext, outcome, calls, printed>>

NextConfig == LoadAndMergeConfig

SpecConfig == InitConfig /\ [][NextConfig]_vars


-----------------------------------------------------------------------------
(* Transport resolution: New.                                              *)

\* an exception raised by a handler or an external call
Raise(kind, msg) == [exc |-> kind, msg |-> msg]

\* a backend object: Huggingface(model), Ollama(model), OCI(model, conman),
\* URL(model); only OCI is given the engine
Backend(type, model, conman) == [type |-> type, model |-> model, conman |-> conman]
NoBackend == Backend("", "", PyNone)

\* the result of a call that returns a value or raises
Returned(value) == [exc |-> "", msg |-> "", value |-> value]
Raised(kind, msg) == [exc |-> kind, msg |-> msg, value |-> NoBackend]

\* one external call, as logged in `calls`
Call(op, target, argv) == [op |-> op, target |-> target, argv |-> argv]

\* config.get("transport", "ollama"), as the string New compares and prints
TransportOf(cfg) == Get(cfg, "transport", PyStr("ollama")).v

\* the four prefix tests of New, in the order New evaluates them
is_huggingface(model) ==
  StartsWith(model, "huggingface://") \/ StartsWith(model, "hf://")
    \/ StartsWith(model, "hf.co/")
is_ollama(model) ==
  StartsWith(model, "ollama://") \/ Contains(model, "ollama.com/library/")
is_oci(model) == StartsWith(model, "oci://") \/ StartsWith(model, "docker://")
is_url(model) ==
  StartsWith(model, "http://") \/ StartsWith(model, "https://")
    \/ StartsWith(model, "file://")

\* a variant of New that consults the configured transport first
New_default_first(cfg, model, a) ==
  LET transport == TransportOf(cfg)
  IN IF transport = "huggingface"
     THEN Returned(Backend("Huggingface", model, PyNone))
     ELSE IF transport = "ollama"
     THEN Returned(Backend("Ollama", model, PyNone))
     ELSE IF transport = "oci"
     THEN Returned(Backend("OCI", model, a.engine))
     ELSE IF is_huggingface(model)
     THEN Returned(Backend("Huggingface", model, PyNone))
     ELSE IF is_ollama(model)
     THEN Returned(Backend("Ollama", model, PyNone))
     ELSE IF is_oci(model)
     THEN Returned(Backend("OCI", model, a.engine))
     ELSE IF is_url(model)
     THEN Returned(Backend("URL", model, PyNone))
     ELSE Raised("KeyError",
                 "transport \"" \o transport
                   \o "\" not supported. Must be oci, huggingface, or ollama.")

\* a variant of New whose fallback treats every unknown transport as ollama
New_lenient(cfg, model, a) ==
  LET transport == TransportOf(cfg)
  IN IF is_huggingface(model)
     THEN Returned(Backend("Huggingface", model, PyNone))
     ELSE IF is_ollama(model)
     THEN Returned(Backend("Ollama", model, PyNone))
     ELSE IF is_oci(model)
     THEN Returned(Backend("OCI", model, a.engine))
     ELSE IF is_url(model)
     THEN Returned(Backend("URL", model, PyNone))
     ELSE IF transport = "huggingface"
     THEN Returned(Backend("Huggingface", model, PyNone))
     ELSE IF transport = "oci"
     THEN Returned(Backend("OCI", model, a.engine))
     ELSE Returned(Backend("Ollama", model, PyNone))

\* a variant of New that tests the OCI and URL prefixes before the Ollama
\* substring
New_reordered(cfg, model, a) ==
  LET transport == TransportOf(cfg)
  IN IF is_huggingface(model)
     THEN Returned(Backend("Huggingface", model, PyNone))
     ELSE IF is_oci(model)
     THEN Returned(Backend("OCI", model, a.engine))
     ELSE IF is_url(model)
     THEN Returned(Backend("URL", model, PyNone))
     ELSE IF is_ollama(model)
     THEN Returned(Backend("Ollama", model, PyNone))
     ELSE IF transport = "huggingface"
     THEN Returned(Backend("Huggingface", model, PyNone))
     ELSE IF transport = "ollama"
     THEN Returned(Backend("Ollama", model, PyNone))
     ELSE IF transport = "oci"
     THEN Returned(Backend("OCI", model, a.engine))
     ELSE Raised("KeyError",
                 "transport \"" \o transport
                   \o "\" not supported. Must be oci, huggingface, or ollama.")

New(cfg, model, a) ==
  LET transport == TransportOf(cfg)
  IN IF is_huggingface(model)
     THEN Returned(Backend("Huggingface", model, PyNone))
     ELSE IF is_ollama(model)
     THEN Returned(Backend("Ollama", model, PyNone))
     ELSE IF is_oci(model)
     THEN Returned(Backend("OCI", model, a.engine))
     ELSE IF is_url(model)
     THEN Returned(Backend("URL", model, PyNone))
     ELSE IF transport = "huggingface"
     THEN Returned(Backend("Huggingface", model, PyNone))
     ELSE IF transport = "ollama"
     THEN Returned(Backend("Ollama", model, PyNone))
     ELSE IF transport = "oci"
     THEN Returned(Backend("OCI", model, a.engine))
     ELSE Raised("KeyError",
                 "transport \"" \o transport
                   \o "\" not supported. Must be oci, huggingface, or ollama.")

-----------------------------------------------------------------------------
(* Listing: human_duration, list_files_by_modification, _list_models and   *)
(* the rows list_cli prints.  The store's models tree is a sequence of     *)
(* entries in the order Path().rglob("*") yields them; an entry is a       *)
(* directory, a symbolic link to an existing file, or a dangling link.     *)

\* a variant of human_duration whose bands include their upper threshold
human_duration_inclusive(d) ==
  IF d < 1 THEN "Less than a second"
  ELSE IF d = 1 THEN "1 second"
  ELSE IF d <= 60 THEN IntToStr(d) \o " seconds"
  ELSE IF d <= 120 THEN "1 minute"
  ELSE IF d <= 3600 THEN IntToStr(d \div 60) \o " minutes"
  ELSE IF d <= 7200 THEN "1 hour"
  ELSE IF d <= 86400 THEN IntToStr(d \div 3600) \o " hours"
  ELSE IF d <= 172800 THEN "1 day"
  ELSE IF d <= 604800 THEN IntToStr(d \div 86400) \o " days"
  ELSE IF d <= 1209600 THEN "1 week"
  ELSE IF d <= 2419200 THEN IntToStr(d \div 604800) \o " weeks"
  ELSE IF d <= 4838400 THEN "1 month"
  ELSE IF d <= 31536000 THEN IntToStr(d \div 2419200) \o " months"
  ELSE IF d <= 63072000 THEN "1 year"
  ELSE IntToStr(d \div 31536000) \o " years"

human_duration(d) ==
  IF d < 1 THEN "Less than a second"
  ELSE IF d = 1 THEN "1 second"
  ELSE IF d < 60 THEN IntToStr(d) \o " seconds"
  ELSE IF d < 120 THEN "1 minute"
  ELSE IF d < 3600 THEN IntToStr(d \div 60) \o " minutes"
  ELSE IF d < 7200 THEN "1 hour"
  ELSE IF d < 86400 THEN IntToStr(d \div 3600) \o " hours"
  ELSE IF d < 172800 THEN "1 day"
  ELSE IF d < 604800 THEN IntToStr(d \div 86400) \o " days"
  ELSE IF d < 1209600 THEN "1 week"
  ELSE IF d < 2419200 THEN IntToStr(d \div 604800) \o " weeks"
  ELSE IF d < 4838400 THEN "1 month"
  ELSE IF d < 31536000 THEN IntToStr(d \div 2419200) \o " months"
  ELSE IF d < 63072000 THEN "1 year"
  ELSE IntToStr(d \div 31536000) \o " years"

\* a line written to stdout; `name` is the model a listing row is about
Line(kind, text, name) == [kind |-> kind, text |-> text, name |-> name]

\* the "modified" value of a listing entry: an int of seconds for a local
\* model, the string the OCI listing reports for an image
ModifiedInt(n) == [t |-> "int", v |-> "", n |-> n]
ModifiedStr(v) == [t |-> "str", v |-> v, n |-> 0]

\* {"name": ..., "modified": ..., "size": ...}
ModelEntry(name, modified, size) == [name |-> name, modified |-> modified, size |-> size]

\* os.path.exists follows links: false for a dangling link
PathExists(e) == e.kind # "dangling"

\* the running state of a handler at its start: what it has called and
\* printed so far, the exception that ended it (OK while none did), whether
\* it has returned early, and the values its helpers hand back
Start ==
  [ calls |-> <<>>, printed |-> <<>>, exc |-> OK, returned |-> FALSE,
    models |-> <<>>, lines |-> <<>>, value |-> "" ]

RECURSIVE scan_paths(_, _, _, _, _, _)
\* the loop of list_files_by_modification over the entries from i on;
\* cleanup[path] is what remove answers for the dangling link at path
scan_paths(cfg, a, entries, cleanup, i, acc) ==
  IF i > Len(entries) \/ acc.exc # OK THEN acc
  ELSE
    LET e == entries[i]
        next ==
          IF StartsWith(e.path, "file/") /\ ~PathExists(e)
          THEN [acc EXCEPT !.calls = Append(@,
                  Call("perror", NoBackend,
                       <<Replace1(e.path, "file/", "file:///") \o " does not exist">>))]
          ELSE IF PathExists(e)
          THEN [acc EXCEPT !.models = Append(@, e)]
          ELSE
            LET notice == Line("notice",
                               "Broken symlink found in: " \o a.store \o "/models/"
                                 \o e.path \o " \nAttempting removal", "")
                m == New(cfg, Replace1(e.path, "/", "://"), a)
            IN IF m.exc # ""
               THEN [acc EXCEPT !.printed = Append(@, notice),
                                !.exc = Raise(m.exc, m.msg)]
               ELSE [acc EXCEPT !.printed = Append(@, notice),
                                !.calls = Append(@, Call("remove", m.value, <<>>)),
                                !.exc = cleanup[e.path]]
    IN scan_paths(cfg, a, entries, cleanup, i + 1, next)

RECURSIVE insert_by_mtime(_, _)
\* place e behind every entry at least as recent: a stable descending sort
insert_by_mtime(sorted, e) ==
  IF sorted = <<>> THEN <<e>>
  ELSE IF Head(sorted).mtime >= e.mtime
  THEN <<Head(sorted)>> \o insert_by_mtime(Tail(sorted), e)
  ELSE <<e>> \o sorted

RECURSIVE sort_by_mtime(_, _)
\* sorted(models, key=os.path.getmtime, reverse=True)
sort_by_mtime(models, done) ==
  IF models = <<>> THEN done
  ELSE sort_by_mtime(Tail(models), insert_by_mtime(done, Head(models)))

\* list_files_by_modification(args): the paths that exist, most recently
\* modified first, with what the scan called and printed
list_files_by_modification(cfg, a, store, cleanup) ==
  LET r == scan_paths(cfg, a, store.entries, cleanup, 1, Start)
  IN [r EXCEPT !.models = sort_by_mtime(r.models, <<>>)]

RECURSIVE collect_models(_, _, _)
\* the loop of _list_models over the paths: one entry per symbolic link
collect_models(paths, now, models) ==
  IF paths = <<>> THEN models
  ELSE
    LET e == Head(paths)
        name == IF StartsWith(e.path, "file/")
                THEN Replace1(e.path, "/", ":///")
                ELSE Replace1(e.path, "/", "://")
    IN collect_models(Tail(paths), now,
         IF e.kind = "link"
         THEN Append(models, ModelEntry(name, ModifiedInt(now - e.lmtime), e.size))
         ELSE models)

\* _list_models(args); oci is what ramalama.oci.list_models(args) returns
list_models(cfg, a, store, cleanup, oci) ==
  LET r == list_files_by_modification(cfg, a, store, cleanup)
  IN IF r.exc # OK THEN [r EXCEPT !.models = <<>>]
     ELSE [r EXCEPT !.models = collect_models(r.models, store.now, <<>>) \o oci]

RECURSIVE insert_by_name(_, _)
insert_by_name(sorted, m) ==
  IF sorted = <<>> THEN <<m>>
  ELSE IF StrLess(m.name, Head(sorted).name)
  THEN <<m>> \o sorted
  ELSE <<Head(sorted)>> \o insert_by_name(Tail(sorted), m)

RECURSIVE sort_by_name(_, _)
\* sorted(models, key=lambda d: d['name'])
sort_by_name(models, done) ==
  IF models = <<>> THEN done
  ELSE sort_by_name(Tail(models), insert_by_name(done, Head(models)))

\* the MODIFIED cell: human_duration(...) + " ago", or the value itself when
\* human_duration raises TypeError on a string
modified_cell(m) ==
  IF m.modified.t = "int" THEN human_duration(m.modified.n) \o " ago" ELSE m.modified.v

RECURSIVE column_widths(_, _)
\* the first loop of list_cli: the maximum width of each column
column_widths(models, w) ==
  IF models = <<>> THEN w
  ELSE LET m == Head(models)
       IN column_widths(Tail(models),
            [name |-> Max(w.name, Len(m.name)),
             modified |-> Max(w.modified, Len(modified_cell(m))),
             size |-> Max(w.size, Len(m.size))])

RECURSIVE print_rows(_, _, _)
\* the second loop of list_cli: one line per model
print_rows(models, w, quiet) ==
  IF models = <<>> THEN <<>>
  ELSE LET m == Head(models)
           text == IF quiet THEN m.name
                   ELSE PadRight(m.name, w.name) \o " "
                          \o PadRight(modified_cell(m), w.modified) \o " "
                          \o PadRight(StrUpper(m.size), w.size)
       IN <<Line("row", text, m.name)>> \o print_rows(Tail(models), w, quiet)

RECURSIVE json_items(_)
json_items(models) ==
  IF models = <<>> THEN ""
  ELSE LET m == Head(models)
           item == "{\"name\": \"" \o m.name \o "\", \"modified\": "
                     \o (IF m.modified.t = "int" THEN IntToStr(m.modified.n)
                         ELSE "\"" \o m.modified.v \o "\"")
                     \o ", \"size\": \"" \o m.size \o "\"}"
       IN IF Len(models) = 1 THEN item ELSE item \o ", " \o json_items(Tail(models))

\* json.dumps(models)
json_dumps(models) == "[" \o json_items(models) \o "]"

\* what list_cli prints for the models _list_models returned
list_output(models, a) ==
  IF a.json THEN <<Line("json", json_dumps(models), "")>>
  ELSE
    LET w == column_widths(sort_by_name(models, <<>>),
                           [name |-> Len("NAME"), modified |-> Len("MODIFIED"),
                            size |-> Len("SIZE")])
        header == IF ~a.quiet /\ ~a.noheading /\ ~a.json
                  THEN <<Line("header",
                              PadRight("NAME", w.name) \o " "
                                \o PadRight("MODIFIED", w.modified) \o " "
                                \o PadRight("SIZE", w.size), "")>>
                  ELSE <<>>
    IN header \o print_rows(models, w, a.quiet)

-----------------------------------------------------------------------------
(* Removal: _rm_model.                                                     *)

\* MODEL_TYPES of ramalama.model: the transport names whose "<name>://"
\* prefix marks an explicit model transport
MODEL_TYPES == <<"file", "https", "http", "oci", "docker", "huggingface", "hf", "ollama">>

\* shortnames.resolve(name): the table's entry for the name, or None
resolve(table, name) == IF name \in DOMAIN table THEN PyStr(table[name]) ELSE PyNone

\* any(model.startswith(prefix + "://") for prefix in MODEL_TYPES)
has_model_type_prefix(model) ==
  \E i \in 1..Len(MODEL_TYPES) : StartsWith(model, MODEL_TYPES[i] \o "://")

\* a variant of the except KeyError branch that raises for an explicit prefix
\* even under --ignore
rm_fallback_strict(a, model, e, oci_remove, acc) ==
  IF has_model_type_prefix(model)
  THEN [acc EXCEPT !.exc = e]
  ELSE
    LET tried == [acc EXCEPT !.calls = Append(@,
                    Call("remove", Backend("OCI", model, a.engine), <<"ignore_stderr">>))]
    IN IF oci_remove = OK
       THEN [tried EXCEPT !.returned = TRUE]
       ELSE IF ~a.ignore THEN [tried EXCEPT !.exc = e] ELSE tried

\* the except KeyError branch of _rm_model for one model; e is the KeyError,
\* oci_remove what the OCI backend's remove answers
rm_fallback(a, model, e, oci_remove, acc) ==
  IF has_model_type_prefix(model) /\ ~a.ignore
  THEN [acc EXCEPT !.exc = e]
  ELSE
    LET tried == [acc EXCEPT !.calls = Append(@,
                    Call("remove", Backend("OCI", model, a.engine), <<"ignore_stderr">>))]
    IN IF oci_remove = OK
       THEN [tried EXCEPT !.returned = TRUE]
       ELSE IF ~a.ignore THEN [tried EXCEPT !.exc = e] ELSE tried

RECURSIVE rm_models(_, _, _, _, _, _, _)
\* _rm_model(models, args) from the i-th model on; answers[i] is what the
\* backends answer for the i-th model
rm_models(cfg, a, table, models, answers, i, acc) ==
  IF i > Len(models) \/ acc.exc # OK \/ acc.returned THEN acc
  ELSE
    LET resolved_model == resolve(table, models[i])
        model == IF Truthy(resolved_model) THEN resolved_model.v ELSE models[i]
        m == New(cfg, model, a)
        next ==
          IF m.exc = "KeyError"
          THEN rm_fallback(a, model, Raise(m.exc, m.msg), answers[i].oci_remove, acc)
          ELSE
            LET called == [acc EXCEPT !.calls = Append(@, Call("remove", m.value, <<>>))]
                r == answers[i].remove
            IN IF r = OK THEN called
               ELSE IF r.exc = "KeyError"
               THEN rm_fallback(a, model, r, answers[i].oci_remove, called)
               ELSE [called EXCEPT !.exc = r]
    IN rm_models(cfg, a, table, models, answers, i + 1, next)

\* _rm_model(models, args)
rm_model(cfg, a, table, models, answers, acc) ==
  rm_models(cfg, a, table, models, answers, 1, acc)

RECURSIVE names_of(_)
\* [k['name'] for k in models]
names_of(models) ==
  IF models = <<>> THEN <<>> ELSE <<Head(models).name>> \o names_of(Tail(models))

-----------------------------------------------------------------------------
(* The engine adapter: _list_containers, _stop_container, stop_container.  *)

\* run_cmd(argv, ignore_stderr=...) as logged in `calls`
RunCmd(argv, ignore_stderr) ==
  Call(IF ignore_stderr THEN "run_cmd(ignore_stderr)" ELSE "run_cmd", NoBackend, argv)

\* what run_cmd returned: the subprocess's stdout
Stdout(text) == [exc |-> "", msg |-> text]

\* a variant of _list_containers that splits the output as it is, without
\* the test for empty output
list_containers_lines_split_only(a, ps, acc) ==
  LET conman == a.engine
  IN IF conman = PyStr("") \/ conman = PyNone
     THEN [acc EXCEPT !.exc = Raise("ValueError", "no container manager (Podman, Docker) found")]
     ELSE
       LET argv == <<conman.v, "ps", "-a", "--filter", "label=ai.ramalama">>
                     \o (IF a.noheading THEN <<"--noheading">> ELSE <<>>)
                     \o (IF a.notrunc THEN <<"--no-trunc">> ELSE <<>>)
                     \o (IF Truthy(a.format) THEN <<"--format=" \o a.format.v>> ELSE <<>>)
           ran == [acc EXCEPT !.calls = Append(@, RunCmd(argv, FALSE))]
       IN IF ps.exc = ""
          THEN [ran EXCEPT !.lines = Split(Strip(ps.msg), "\n")]
          ELSE IF ps.exc = "CalledProcessError"
          THEN [ran EXCEPT !.exc = ps,
                           !.calls = Append(@,
                              Call("perror", NoBackend,
                                   <<"ramalama list command requires a running container engine">>))]
          ELSE [ran EXCEPT !.exc = ps]

\* _list_containers(args); ps is what the engine's ps answers.  The result
\* carries the lines returned in `lines`.
list_containers_lines(a, ps, acc) ==
  LET conman == a.engine
  IN IF conman = PyStr("") \/ conman = PyNone
     THEN [acc EXCEPT !.exc = Raise("ValueError", "no container manager (Podman, Docker) found")]
     ELSE
       LET argv == <<conman.v, "ps", "-a", "--filter", "label=ai.ramalama">>
                     \o (IF a.noheading THEN <<"--noheading">> ELSE <<>>)
                     \o (IF a.notrunc THEN <<"--no-trunc">> ELSE <<>>)
                     \o (IF Truthy(a.format) THEN <<"--format=" \o a.format.v>> ELSE <<>>)
           ran == [acc EXCEPT !.calls = Append(@, RunCmd(argv, FALSE))]
       IN IF ps.exc = ""
          THEN LET output == Strip(ps.msg)
               IN [ran EXCEPT !.lines = IF output = "" THEN <<>> ELSE Split(output, "\n")]
          ELSE IF ps.exc = "CalledProcessError"
          THEN [ran EXCEPT !.exc = ps,
                           !.calls = Append(@,
                              Call("perror", NoBackend,
                                   <<"ramalama list command requires a running container engine">>))]
          ELSE [ran EXCEPT !.exc = ps]

\* _stop_container(args, name); stopped is what the engine's stop answers.
\* An engine of None reaches run_cmd, where building the argument vector
\* fails with TypeError before any process is spawned.
stop_one(a, name, stopped, acc) ==
  IF ~Truthy(name)
  THEN [acc EXCEPT !.exc = Raise("ValueError", "must specify a container name")]
  ELSE
    LET conman == a.engine
    IN IF conman = PyStr("")
       THEN [acc EXCEPT !.exc = Raise("ValueError", "no container manager (Podman, Docker) found")]
       ELSE IF conman = PyNone
       THEN [acc EXCEPT !.exc = Raise("TypeError", "")]
       ELSE
         LET native == a.ignore /\ conman = PyStr("podman")
             ignore_stderr == a.ignore /\ conman # PyStr("podman")
             argv == <<conman.v, "stop", "-t=0">>
                       \o (IF native THEN <<"--ignore", "True">> ELSE <<>>)
                       \o <<name.v>>
             ran == [acc EXCEPT !.calls = Append(@, RunCmd(argv, ignore_stderr))]
         IN IF stopped.exc = "" THEN ran
            ELSE IF stopped.exc = "CalledProcessError" /\ a.ignore
                    /\ conman = PyStr("docker")
            THEN ran
            ELSE [ran EXCEPT !.exc = stopped]

\* list_containers(args): _list_containers runs twice, once for the length
\* test and once for the lines printed; ps1 and ps2 are the engine's answers
list_containers_run(a, ps1, ps2, acc) ==
  LET first == list_containers_lines(a, ps1, acc)
  IN IF first.exc # OK THEN first
     ELSE IF Len(first.lines) = 0 THEN first
     ELSE LET second == list_containers_lines(a, ps2, first)
          IN IF second.exc # OK THEN second
             ELSE [second EXCEPT !.printed =
                     Append(@, Line("containers", Join(second.lines, "\n"), ""))]

RECURSIVE stop_each(_, _, _, _, _)
\* for i in _list_containers(args): _stop_container(args, i)
stop_each(a, names, stops, i, acc) ==
  IF i > Len(names) \/ acc.exc # OK THEN acc
  ELSE stop_each(a, names, stops, i + 1, stop_one(a, PyStr(names[i]), stops[i], acc))

\* the --all part of stop_container once the name check has passed
stop_all(a, ps, stops, acc) ==
  LET forced == [a EXCEPT !.ignore = TRUE, !.format = PyStr("{{ .Names }}")]
      listed == list_containers_lines(forced, ps, acc)
  IN IF listed.exc # OK THEN listed
     ELSE stop_each(forced, listed.lines, stops, 1, listed)

\* a variant of stop_container that checks for the name after listing
stop_container_late_check(a, ps, stops, acc) ==
  IF ~a.all THEN stop_one(a, a.NAME, stops[1], acc)
  ELSE
    LET forced == [a EXCEPT !.ignore = TRUE, !.format = PyStr("{{ .Names }}")]
        listed == list_containers_lines(forced, ps, acc)
    IN IF listed.exc # OK THEN listed
       ELSE IF Truthy(a.NAME)
       THEN [listed EXCEPT !.exc =
               Raise("ValueError",
                     "specifying --all and container name, " \o a.NAME.v \o ", not allowed")]
       ELSE stop_each(forced, listed.lines, stops, 1, listed)

\* stop_container(args); ps and stops are the engine's answers
stop_container_run(a, ps, stops, acc) ==
  IF ~a.all THEN stop_one(a, a.NAME, stops[1], acc)
  ELSE IF Truthy(a.NAME)
  THEN [acc EXCEPT !.exc =
          Raise("ValueError",
                "specifying --all and container name, " \o a.NAME.v \o ", not allowed")]
  ELSE stop_all(a, ps, stops, acc)

-----------------------------------------------------------------------------
(* The info command: engine_info, show_gpus_available_cli and info_cli.    *)
(* JSON values are strings, the literals, lists, and dicts as sequences of *)
(* key/value pairs in insertion order.                                     *)

JStr(s) == [j |-> "str", s |-> s, items |-> <<>>]
JLit(s) == [j |-> "lit", s |-> s, items |-> <<>>]
JList(items) == [j |-> "list", s |-> "", items |-> items]
JDict(pairs) == [j |-> "dict", s |-> "", items |-> pairs]
KV(k, v) == [k |-> k, v |-> v]

\* the JSON value of a configuration value
JOf(x) ==
  IF x = PyNone THEN JLit("null")
  ELSE IF x = PyTrue THEN JLit("true")
  ELSE IF x = PyFalse THEN JLit("false")
  ELSE JStr(x.v)

RECURSIVE insert_by_key(_, _)
insert_by_key(sorted, kv) ==
  IF sorted = <<>> THEN <<kv>>
  ELSE IF StrLess(kv.k, Head(sorted).k) THEN <<kv>> \o sorted
  ELSE <<Head(sorted)>> \o insert_by_key(Tail(sorted), kv)

RECURSIVE sort_by_key(_, _)
\* sort_keys=True
sort_by_key(pairs, done) ==
  IF pairs = <<>> THEN done
  ELSE sort_by_key(Tail(pairs), insert_by_key(done, Head(pairs)))

RECURSIVE dumps(_, _)
\* json.dumps(value, sort_keys=True, indent=4), at nesting depth `level`
dumps(value, level) ==
  LET inner == "\n" \o Spaces(4 * (level + 1))
      close == "\n" \o Spaces(4 * level)
  IN IF value.j = "str" THEN "\"" \o value.s \o "\""
     ELSE IF value.j = "lit" THEN value.s
     ELSE IF value.j = "list"
     THEN IF value.items = <<>> THEN "[]"
          ELSE "[" \o inner
                 \o Join([i \in 1..Len(value.items) |-> dumps(value.items[i], level + 1)],
                         "," \o inner)
                 \o close \o "]"
     ELSE IF value.items = <<>> THEN "{}"
          ELSE LET pairs == sort_by_key(value.items, <<>>)
               IN "{" \o inner
                    \o Join([i \in 1..Len(pairs) |->
                               "\"" \o pairs[i].k \o "\": " \o dumps(pairs[i].v, level + 1)],
                            "," \o inner)
                    \o close \o "}"

\* json.loads(text) on the documents an engine prints here; any other text
\* is no JSON document
json_loads(text) ==
  IF text = "{}" THEN Returned(JDict(<<>>))
  ELSE IF text = "{\"host\": {\"os\": \"linux\", \"arch\": \"amd64\"}}"
  THEN Returned(JDict(<<KV("host", JDict(<<KV("os", JStr("linux")),
                                            KV("arch", JStr("amd64"))>>))>>))
  ELSE [exc |-> "JSONDecodeError", msg |-> "Expecting value", value |-> JLit("null")]

\* engine_info(args); ran is what the engine's info answers.  The result
\* carries the value returned in `value`.
engine_info(a, ran, acc) ==
  LET conman == a.engine
  IN IF conman = PyStr("")
     THEN [acc EXCEPT !.exc = Raise("ValueError", "no container manager (Podman, Docker) found")]
     ELSE
       LET argv == <<conman.v, "info", "--format", "json">>
           called == [acc EXCEPT !.calls = Append(@, RunCmd(argv, FALSE))]
       IN IF ran.exc = "FileNotFoundError" THEN [called EXCEPT !.value = JStr(ran.msg)]
          ELSE IF ran.exc # "" THEN [called EXCEPT !.exc = ran]
          ELSE LET output == Strip(ran.msg)
                   loaded == json_loads(output)
               IN IF output = "" THEN [called EXCEPT !.value = JList(<<>>)]
                  ELSE IF loaded.exc # ""
                  THEN [called EXCEPT !.exc = Raise(loaded.exc, loaded.msg)]
                  ELSE [called EXCEPT !.value = loaded.value]

\* one vendor's detection in show_gpus_available_cli: the GPUs found, or the
\* vendor's entry for the errors list
detect(vendor, answer, none_text) ==
  IF answer.exc # "" THEN [gpus |-> <<>>, errors |-> <<JDict(<<KV("Vendor", JStr(vendor)), KV("INFO", JStr(answer.msg))>>)>>]
  ELSE IF answer.gpus # <<>> THEN [gpus |-> answer.gpus, errors |-> <<>>]
  ELSE [gpus |-> <<>>, errors |-> <<JDict(<<KV("Vendor", JStr(vendor)), KV("INFO", JStr(none_text))>>)>>]

\* show_gpus_available_cli(args); gpu answers platform.system() and the
\* detectors
show_gpus_available_cli(gpu) ==
  LET found ==
        IF gpu.system = "Darwin"
        THEN <<detect("Apple", gpu.macos, "No GPU detected on macOS.")>>
        ELSE <<detect("NVIDIA", gpu.nvidia, "No NVIDIA GPU detected or drivers missing."),
               detect("AMD", gpu.amd, "No AMD GPU detected or drivers missing."),
               detect("Intel", gpu.intel, "No Intel GPU detected or drivers missing.")>>
      gpu_info == IF Len(found) = 1 THEN found[1].gpus
                  ELSE found[1].gpus \o found[2].gpus \o found[3].gpus
      errors == IF Len(found) = 1 THEN found[1].errors
                ELSE found[1].errors \o found[2].errors \o found[3].errors
  IN JDict(<<KV("Detected GPUs",
                IF gpu_info # <<>> THEN JList(gpu_info)
                ELSE JList(<<JDict(<<KV("GPU", JStr("None")), KV("VRAM", JStr("N/A")),
                                     KV("INFO", JStr("No GPUs detected"))>>)>>)),
             KV("INFO", IF errors # <<>> THEN JList(errors) ELSE JStr("No errors"))>>)

\* info_cli(args); ran answers the engine's info, gpu the GPU detection
info(a, ran, gpu, acc) ==
  LET asked == IF Truthy(a.engine) /\ Len(a.engine.v) > 0
               THEN engine_info(a, ran, acc)
               ELSE acc
      Engine == IF Truthy(a.engine) /\ Len(a.engine.v) > 0
                THEN JDict(<<KV("Name", JOf(a.engine)), KV("Info", asked.value)>>)
                ELSE JDict(<<KV("Name", JOf(a.engine))>>)
      snapshot == JDict(<<KV("Engine", Engine),
                          KV("UseContainer", JOf(a.container)),
                          KV("Image", JOf(a.image)),
                          KV("Runtime", JOf(a.runtime)),
                          KV("Store", JOf(a.store)),
                          KV("Version", JStr(a.version)),
                          KV("GPUs", show_gpus_available_cli(gpu))>>)
  IN IF asked.exc # OK THEN asked
     ELSE [asked EXCEPT !.printed = Append(@, Line("json", dumps(snapshot, 0), ""))]

-----------------------------------------------------------------------------
(* Registry login and logout: normalize_registry, login_cli, logout_cli.   *)

\* normalize_registry(registry).  The list of the membership test is
\* ["ollama", "hf" "huggingface"]: the two adjacent literals are one string.
normalize_registry(registry) ==
  IF ~Truthy(registry) \/ registry = PyStr("") \/ StartsWith(registry.v, "oci://")
  THEN "oci://"
  ELSE IF registry.v \in {"ollama", "hf" \o "huggingface"}
  THEN registry.v
  ELSE "oci://" \o registry.v

\* login_cli(args) and logout_cli(args): verb is "login" or "logout",
\* answered what the backend's verb answers
registry_verb(cfg, a, verb, answered, acc) ==
  LET registry == normalize_registry(a.REGISTRY)
      model == New(cfg, registry, a)
  IN IF model.exc # ""
     THEN [acc EXCEPT !.exc = Raise(model.exc, model.msg)]
     ELSE [acc EXCEPT !.calls = Append(@, Call(verb, model.value, <<>>)),
                      !.exc = answered]

-----------------------------------------------------------------------------
(* Push: _get_source and push_cli.                                         *)

\* _get_source(args); src answers os.path.exists(SOURCE), smodel.exists and
\* smodel.pull.  The result carries the source in `value`.
get_source(cfg, a, table, src, acc) ==
  IF src.exists THEN [acc EXCEPT !.value = a.SOURCE]
  ELSE
    LET resolved == resolve(table, a.SOURCE)
        name == IF Truthy(resolved) THEN resolved.v ELSE a.SOURCE
        smodel == New(cfg, name, a)
    IN IF smodel.exc # "" THEN [acc EXCEPT !.exc = Raise(smodel.exc, smodel.msg)]
       ELSE IF smodel.value.type = "OCI" THEN [acc EXCEPT !.value = name]
       ELSE
         LET asked == [acc EXCEPT !.calls = Append(@, Call("exists", smodel.value, <<>>))]
         IN IF ~src.cached
            THEN LET pulled == [asked EXCEPT !.calls =
                                  Append(@, Call("pull", smodel.value, <<>>))]
                 IN IF src.pull = OK
                    THEN [pulled EXCEPT !.value = "pulled:" \o name]
                    ELSE [pulled EXCEPT !.exc = src.pull]
            ELSE [asked EXCEPT !.calls = Append(@, Call("path", smodel.value, <<>>)),
                               !.value = "path:" \o name]

\* a variant of the try/except that falls back to the OCI push for every
\* target
push_target_always_fallback(cfg, a, tgt, source, pushed, oci_pushed, acc) ==
  LET model == New(cfg, tgt, a)
  IN IF model.exc # "" THEN [acc EXCEPT !.exc = Raise(model.exc, model.msg)]
     ELSE
       LET tried == [acc EXCEPT !.calls = Append(@, Call("push", model.value, <<source>>))]
       IN IF pushed = OK THEN tried
          ELSE IF pushed.exc # "NotImplementedError" THEN [tried EXCEPT !.exc = pushed]
          ELSE
            LET again == [tried EXCEPT !.calls = Append(@,
                            Call("push", Backend("OCI", tgt, cfg["engine"]), <<source>>))]
            IN IF oci_pushed = OK THEN again ELSE [again EXCEPT !.exc = pushed]

\* the try/except of push_cli for the resolved target tgt; pushed and
\* oci_pushed are what the backend's and the OCI backend's push answer
push_target(cfg, a, tgt, source, pushed, oci_pushed, acc) ==
  LET model == New(cfg, tgt, a)
  IN IF model.exc # "" THEN [acc EXCEPT !.exc = Raise(model.exc, model.msg)]
     ELSE
       LET tried == [acc EXCEPT !.calls = Append(@, Call("push", model.value, <<source>>))]
       IN IF pushed = OK THEN tried
          ELSE IF pushed.exc # "NotImplementedError" THEN [tried EXCEPT !.exc = pushed]
          ELSE IF has_model_type_prefix(tgt) THEN [tried EXCEPT !.exc = pushed]
          ELSE
            LET again == [tried EXCEPT !.calls = Append(@,
                            Call("push", Backend("OCI", tgt, cfg["engine"]), <<source>>))]
            IN IF oci_pushed = OK THEN again ELSE [again EXCEPT !.exc = pushed]

\* push_cli(args)
push(cfg, a, table, src, pushed, oci_pushed, acc) ==
  LET got == IF Truthy(a.TARGET) THEN get_source(cfg, a, table, src, acc)
             ELSE [acc EXCEPT !.value = a.SOURCE]
      target == IF Truthy(a.TARGET) THEN a.TARGET.v ELSE a.SOURCE
      resolved == resolve(table, target)
      tgt == IF Truthy(resolved) THEN resolved.v ELSE target
  IN IF got.exc # OK THEN got
     ELSE push_target(cfg, a, tgt, got.value, pushed, oci_pushed, got)

-----------------------------------------------------------------------------
(* The process runs of the commands: the state after import is the merged  *)
(* configuration; then one handler runs.                                   *)

\* the environments of the command runs: the default transport varies
RunEnvs ==
  { [n \in {} |-> ""] } \cup
  { [n \in {"RAMALAMA_TRANSPORT"} |-> t] : t \in {"", "oci", "huggingface", "rsync"} }

NoFiles ==
  [ explicit |-> EmptyDict,
    main |-> <<Absent, Absent, Absent, Absent>>,
    dropins |-> <<NoDropins, NoDropins, NoDropins, NoDropins>> ]

NoExt == [none |-> TRUE]

Init ==
  /\ \E e \in RunEnvs : config = load_and_merge_config(e, NoFiles, PyStr("podman"), 1000)
  /\ cmd = ""
  /\ args = NoArgs
  /\ ext = NoExt
  /\ outcome = OK
  /\ calls = <<>>
  /\ printed = <<>>

\* the model references of the command runs: every recognized prefix, or
\* none, before a plain name, a name under ollama.com/library/, and a name
\* that holds a prefix further in
RefPrefixes ==
  { "", "huggingface://", "hf://", "hf.co/", "ollama://", "oci://", "docker://",
    "http://", "https://", "file://" }
RefBodies == { "tiny", "ollama.com/library/tiny", "my/hf://tiny" }
Refs == { p \o b : p \in RefPrefixes, b \in RefBodies }

\* run_cli: model = New(args.MODEL, args); model.run(args)
run_cli ==
  /\ cmd = ""
  /\ \E MODEL \in Refs, ran \in {OK, Raise("CalledProcessError", "")} :
       LET a == [MODEL |-> MODEL, engine |-> config["engine"]]
           model == New(config, a.MODEL, a)
       IN /\ args' = a
          /\ ext' = [run |-> ran]
          /\ IF model.exc # ""
             THEN /\ outcome' = Raise(model.exc, model.msg)
                  /\ calls' = <<>>
             ELSE /\ outcome' = ran
                  /\ calls' = <<Call("run", model.value, <<>>)>>
  /\ cmd' = "run"
  /\ UNCHANGED <<config, printed>>

\* the shortname tables of the command runs
ShortnameTables == { [k \in {} |-> ""], [k \in {"tiny"} |-> "ollama://tinyllama"] }

\* the names rm is asked to remove
RmNames == {"tiny", "oci://tiny", "ollama://tiny"}

MaxModels == 2

\* what the backends answer for one model of rm: the resolved backend's
\* remove, and the OCI backend's remove of the fallback
RmAnswers ==
  [ remove : {OK, Raise("KeyError", "missing"), Raise("CalledProcessError", "")},
    oci_remove : {OK, Raise("CalledProcessError", "")} ]

\* the store's entries
StoreEntry(path, kind, mtime, lmtime, size) ==
  [path |-> path, kind |-> kind, mtime |-> mtime, lmtime |-> lmtime, size |-> size]

EntryPool ==
  { StoreEntry("ollama", "dir", 50, 50, "4.0 KB"),
    StoreEntry("ollama/foo", "link", 95, 95, "10 B"),
    StoreEntry("huggingface/zed", "link", 99, 40, "1.5 GB"),
    StoreEntry("ollama/gone", "dangling", 0, 60, ""),
    StoreEntry("file/gone", "dangling", 0, 60, "") }

MaxEntries == 2

RECURSIVE SeqsUpTo(_, _)
\* the sequences of at most n elements of S
SeqsUpTo(S, n) ==
  IF n = 0 THEN {<<>>}
  ELSE LET shorter == SeqsUpTo(S, n - 1)
       IN shorter \cup
          { Append(q, x) : q \in { r \in shorter : Len(r) = n - 1 }, x \in S }

Distinct(q) == \A i, j \in 1..Len(q) : i # j => q[i] # q[j]

\* the stores of the listing runs: at time 100, up to MaxEntries entries in
\* any order
Stores ==
  { [now |-> 100, entries |-> q] : q \in { r \in SeqsUpTo(EntryPool, MaxEntries) : Distinct(r) } }

\* the stores of rm --all
RmStores ==
  { [now |-> 100, entries |-> q] :
      q \in { <<>>,
              <<StoreEntry("ollama/foo", "link", 95, 95, "10 B")>>,
              <<StoreEntry("ollama/gone", "dangling", 0, 60, ""),
                StoreEntry("ollama/foo", "link", 95, 95, "10 B")>> } }

\* what ramalama.oci.list_models reports
OciListings ==
  { <<>>,
    <<ModelEntry("oci://bar", ModifiedStr("2 days ago"), "20 B")>>,
    <<ModelEntry("oci://quay.io/zoo", ModifiedStr("3 weeks ago"), "1.2 GB"),
      ModelEntry("oci://bar", ModifiedStr("2 days ago"), "20 B")>> }

\* the dangling links outside file/ of a store: the ones list_files_by_modification
\* tries to remove
CleanupPaths(store) ==
  { store.entries[i].path : i \in { j \in 1..Len(store.entries) :
      store.entries[j].kind = "dangling" /\ ~StartsWith(store.entries[j].path, "file/") } }

CleanupAnswers == {OK, Raise("KeyError", "missing")}

\* the outcome of a handler, recorded
Finish(name, a, e, r) ==
  /\ cmd' = name
  /\ args' = a
  /\ ext' = e
  /\ outcome' = r.exc
  /\ calls' = r.calls
  /\ printed' = r.printed
  /\ UNCHANGED config

\* list_cli(args)
list_cli ==
  /\ cmd = ""
  /\ \E json \in BOOLEAN, quiet \in BOOLEAN, noheading \in BOOLEAN,
        store \in Stores, oci \in OciListings :
       \E cleanup \in [CleanupPaths(store) -> CleanupAnswers] :
         LET a == [json |-> json, quiet |-> quiet, noheading |-> noheading,
                   store |-> config["store"].v, engine |-> config["engine"]]
             r == list_models(config, a, store, cleanup, oci)
         IN Finish("list", a, [store |-> store, oci |-> oci, cleanup |-> cleanup],
                   IF r.exc # OK THEN r
                   ELSE [r EXCEPT !.printed = @ \o list_output(r.models, a)])

\* rm_cli(args) with MODEL arguments
rm_cli ==
  /\ cmd = ""
  /\ \E all \in BOOLEAN, ignore \in BOOLEAN, table \in ShortnameTables,
        MODEL \in SeqsUpTo(RmNames, MaxModels) :
       /\ all => Len(MODEL) = 1
       /\ \E answers \in [1..(IF all THEN 0 ELSE Len(MODEL)) -> RmAnswers] :
            LET a == [all |-> all, ignore |-> ignore, MODEL |-> MODEL,
                      store |-> config["store"].v, engine |-> config["engine"]]
                r == IF ~all
                     THEN IF Len(MODEL) = 0
                          THEN [Start EXCEPT !.exc =
                                  Raise("IndexError", "one MODEL or --all must be specified")]
                          ELSE rm_model(config, a, table, a.MODEL, answers, Start)
                     ELSE [Start EXCEPT !.exc =
                             Raise("IndexError", "can not specify --all as well MODEL")]
            IN Finish("rm", a, [shortnames |-> table, rm |-> answers], r)

\* rm_cli(args) with --all and no MODEL
rm_cli_all ==
  /\ cmd = ""
  /\ \E ignore \in BOOLEAN, table \in ShortnameTables, store \in RmStores,
        oci \in {<<>>, <<ModelEntry("oci://bar", ModifiedStr("2 days ago"), "20 B")>>} :
       \E cleanup \in [CleanupPaths(store) -> CleanupAnswers] :
         LET a == [all |-> TRUE, ignore |-> ignore, MODEL |-> <<>>,
                   store |-> config["store"].v, engine |-> config["engine"]]
             listed == list_models(config, a, store, cleanup, oci)
             models == names_of(listed.models)
         IN \E answers \in [1..Len(models) -> RmAnswers] :
              LET r == IF listed.exc # OK THEN listed
                       ELSE rm_model(config, a, table, models, answers, listed)
              IN Finish("rm", a,
                        [shortnames |-> table, rm |-> answers, store |-> store,
                         oci |-> oci, cleanup |-> cleanup], r)

\* the targets of push: every recognized prefix, or none, before a plain
\* name, and names under ollama.com/library/
PushTargets ==
  { p \o "tiny" : p \in RefPrefixes }
    \cup { "ollama.com/library/tiny", "oci://ollama.com/library/tiny" }

PushSources == { "tiny", "/models/tiny.gguf" }

\* what _get_source finds: the SOURCE is a file; or it is a model that is
\* in the store; or one that is pulled, with success or not
SourceAnswers ==
  { [exists |-> TRUE, cached |-> TRUE, pull |-> OK],
    [exists |-> FALSE, cached |-> TRUE, pull |-> OK],
    [exists |-> FALSE, cached |-> FALSE, pull |-> OK],
    [exists |-> FALSE, cached |-> FALSE, pull |-> Raise("CalledProcessError", "")] }

PushAnswers == {OK, Raise("NotImplementedError", ""), Raise("CalledProcessError", "")}

\* push_cli(args)
push_cli ==
  /\ cmd = ""
  /\ \E SOURCE \in PushSources, TARGET \in {PyNone} \cup { PyStr(t) : t \in PushTargets },
        table \in ShortnameTables, src \in SourceAnswers,
        pushed \in PushAnswers, oci_pushed \in {OK, Raise("CalledProcessError", "")} :
       LET a == [SOURCE |-> SOURCE, TARGET |-> TARGET, engine |-> config["engine"]]
       IN Finish("push", a,
                 [shortnames |-> table, src |-> src, pushed |-> pushed,
                  oci_pushed |-> oci_pushed],
                 push(config, a, table, src, pushed, oci_pushed, Start))

\* the engines of the stop runs: --engine, or the configured one
Engines == { PyStr("podman"), PyStr("docker"), PyStr("nerdctl"), PyStr(""), PyNone }

MaxContainers == 2

RECURSIVE PsNames(_)
\* the names of the first k managed containers
PsNames(k) == IF k = 0 THEN <<>> ELSE Append(PsNames(k - 1), "c" \o IntToStr(k))

\* what the engine's ps prints for k containers, one name per line
PsOutput(k) == IF k = 0 THEN "" ELSE Join(PsNames(k), "\n") \o "\n"

\* what a run_cmd of the engine may answer besides its output
RunCmdErrors == { Raise("CalledProcessError", ""), Raise("FileNotFoundError", "") }

PsAnswers == { Stdout(PsOutput(k)) : k \in 0..MaxContainers } \cup RunCmdErrors

StopAnswers == { OK } \cup RunCmdErrors

\* stop_container(args)
stop_container ==
  /\ cmd = ""
  /\ \E all \in BOOLEAN, ignore \in BOOLEAN, NAME \in {PyNone, PyStr("c1")},
        engine \in Engines, ps \in PsAnswers :
       /\ ~all => ps = Stdout("")
       /\ \E stops \in [1..(IF all THEN MaxContainers ELSE 1) -> StopAnswers] :
            LET a == [all |-> all, ignore |-> ignore, NAME |-> NAME, engine |-> engine,
                      noheading |-> FALSE, notrunc |-> FALSE, format |-> PyNone]
            IN Finish("stop", a, [ps |-> ps, stops |-> stops],
                      stop_container_run(a, ps, stops, Start))

\* the --format values of a containers listing
Formats == { PyNone, PyStr("{{ .Names }}") }

\* list_containers(args)
list_containers ==
  /\ cmd = ""
  /\ \E engine \in Engines, noheading \in BOOLEAN, notrunc \in BOOLEAN,
        format \in Formats, ps1 \in PsAnswers \cup {Stdout("\n")}, ps2 \in PsAnswers :
       /\ ~Truthy(engine) => ps1 = Stdout("")
       /\ (ps1.exc # "" \/ Strip(ps1.msg) = "" \/ ~Truthy(engine)) => ps2 = Stdout("")
       /\ LET a == [engine |-> engine, noheading |-> noheading, notrunc |-> notrunc,
                    format |-> format]
          IN Finish("containers", a, [ps |-> ps1, ps2 |-> ps2],
                    list_containers_run(a, ps1, ps2, Start))

\* the REGISTRY arguments of login and logout
Registries ==
  { PyNone } \cup
  { PyStr(r) : r \in { "", "oci://quay.io", "quay.io", "ollama", "hf", "huggingface",
                       "hfhuggingface" } }

\* login_cli(args)
login_cli ==
  /\ cmd = ""
  /\ \E REGISTRY \in Registries, answered \in {OK, Raise("CalledProcessError", "")} :
       LET a == [REGISTRY |-> REGISTRY, engine |-> config["engine"]]
       IN Finish("login", a, [answered |-> answered],
                 registry_verb(config, a, "login", answered, Start))

\* logout_cli(args)
logout_cli ==
  /\ cmd = ""
  /\ \E REGISTRY \in Registries, answered \in {OK, Raise("CalledProcessError", "")} :
       LET a == [REGISTRY |-> REGISTRY, engine |-> config["engine"]]
       IN Finish("logout", a, [answered |-> answered],
                 registry_verb(config, a, "logout", answered, Start))

\* what the engine's info may answer: nothing, a JSON document, text that
\* is none, a nonzero exit, or no such binary
NoSuchFile(engine) ==
  Raise("FileNotFoundError", "[Errno 2] No such file or directory: '" \o engine \o "'")

InfoAnswers(engine) ==
  { Stdout(""), Stdout("{}\n"),
    Stdout("{\"host\": {\"os\": \"linux\", \"arch\": \"amd64\"}}\n"),
    Stdout("cannot connect\n"),
    Raise("CalledProcessError", ""), NoSuchFile(engine) }

\* what a GPU detector may answer: GPUs, none, or a failure
Detected == [exc |-> "", msg |-> "", gpus |-> <<JDict(<<KV("GPU", JStr("gpu0"))>>)>>]
NoneDetected == [exc |-> "", msg |-> "", gpus |-> <<>>]
DetectFailed == [exc |-> "Exception", msg |-> "no driver", gpus |-> <<>>]

GpuAnswers ==
  { [system |-> "Darwin", macos |-> m, nvidia |-> NoneDetected, amd |-> NoneDetected,
     intel |-> NoneDetected] : m \in {Detected, NoneDetected, DetectFailed} } \cup
  { [system |-> "Linux", macos |-> NoneDetected, nvidia |-> n, amd |-> m, intel |-> NoneDetected] :
      n \in {Detected, NoneDetected, DetectFailed}, m \in {Detected, NoneDetected} }

\* info_cli(args)
info_cli ==
  /\ cmd = ""
  /\ \E engine \in Engines, gpu \in GpuAnswers :
       \E ran \in InfoAnswers(IF engine = PyNone THEN "" ELSE engine.v) :
         /\ ~(Truthy(engine) /\ Len(engine.v) > 0) => ran = Stdout("")
         /\ LET a == [engine |-> engine, container |-> config["container"],
                      image |-> config["image"], runtime |-> config["runtime"],
                      store |-> config["store"], version |-> "0.5.2"]
            IN Finish("info", a, [info |-> ran, gpu |-> gpu], info(a, ran, gpu, Start))

Next ==
  \/ run_cli
  \/ list_cli
  \/ rm_cli
  \/ rm_cli_all
  \/ push_cli
  \/ stop_container
  \/ info_cli
  \/ list_containers
  \/ login_cli
  \/ logout_cli

Spec == Init /\ [][Next]_vars

-----------------------------------------------------------------------------
(* Properties of the configuration merge (under SpecConfig).               *)

Loaded == cmd = "load_and_merge_config"

\* the file-derived table the merge started from
FileDerived == load_config(ext.env, ext.fs)

\* the five overridable fields and their environment variables
OverrideVar ==
  [ container |-> "RAMALAMA_IN_CONTAINER",
    engine |-> "RAMALAMA_CONTAINER_ENGINE",
    image |-> "RAMALAMA_IMAGE",
    store |-> "RAMALAMA_STORE",
    transport |-> "RAMALAMA_TRANSPORT" ]

\* the hard-coded default of each overridable field
FieldDefault(f) ==
  CASE f = "container" -> use_container(ext.env, ext.conman)
    [] f = "engine" -> ext.conman
    [] f = "image" -> PyStr(default_image)
    [] f = "store" -> PyStr(get_store(ext.euid))
    [] OTHER -> PyStr("ollama")

\* the file-derived value of a field, or its default when no file sets it
FileOrDefault(f) == Get(FileDerived, f, FieldDefault(f))

\* C4: whenever the loaded configuration has nocontainer set, the effective
\* configuration has container = False, whatever RAMALAMA_IN_CONTAINER, the
\* files' container value and the engine detection are.
C4_NoContainerForcesFalse ==
  (Loaded /\ Truthy(Get(FileDerived, "nocontainer", PyFalse)))
    => config["container"] = PyFalse

\* C4 witness: nocontainer is set, the file also sets container = true and
\* the environment asks for containers, and the result is container = False.
C4_Witness ==
  /\ Loaded
  /\ Truthy(Get(FileDerived, "nocontainer", PyFalse))
  /\ Get(FileDerived, "container", PyFalse) = PyTrue
  /\ "RAMALAMA_IN_CONTAINER" \in DOMAIN ext.env
  /\ ext.env["RAMALAMA_IN_CONTAINER"] = "true"
  /\ ext.conman # PyNone
  /\ config["container"] = PyFalse

\* C5 as stated: each overridable field equals its environment variable when
\* that is set and non-empty, and the file-derived value or the default when
\* the variable is unset or empty.  (The container field under nocontainer,
\* which the same spec sentence sets apart, is left out of the statement.)
C5_Original ==
  Loaded =>
    \A f \in DOMAIN OverrideVar :
      LET n == OverrideVar[f]
      IN \/ f = "container" /\ Truthy(Get(FileDerived, "nocontainer", PyFalse))
         \/ IF n \in DOMAIN ext.env /\ ext.env[n] # ""
            THEN config[f] = PyStr(ext.env[n])
            ELSE config[f] = FileOrDefault(f)

\* C5 amended: each overridable field equals its environment variable
\* whenever the variable is set, the empty string included, and the
\* file-derived value or the default only when the variable is unset; except
\* that container is False whenever nocontainer is set.
C5_EnvWinsWhenSet ==
  Loaded =>
    \A f \in DOMAIN OverrideVar :
      LET n == OverrideVar[f]
      IN IF f = "container" /\ Truthy(Get(FileDerived, "nocontainer", PyFalse))
         THEN config[f] = PyFalse
         ELSE IF n \in DOMAIN ext.env
              THEN config[f] = PyStr(ext.env[n])
              ELSE config[f] = FileOrDefault(f)

\* C5 witness: a variable set to the empty string beats the value a file
\* sets, while an unset one leaves the file's value in place.
C5_Witness ==
  /\ Loaded
  /\ "RAMALAMA_TRANSPORT" \in DOMAIN ext.env
  /\ ext.env["RAMALAMA_TRANSPORT"] = ""
  /\ "transport" \in DOMAIN FileDerived
  /\ config["transport"] = PyStr("")
  /\ "RAMALAMA_STORE" \notin DOMAIN ext.env
  /\ "store" \in DOMAIN FileDerived
  /\ config["store"] = FileDerived["store"]
  /\ "RAMALAMA_IMAGE" \in DOMAIN ext.env
  /\ ext.env["RAMALAMA_IMAGE"] = "img:env"
  /\ config["image"] = PyStr("img:env")


-----------------------------------------------------------------------------
(* Properties of transport resolution (under Spec, through run_cli).       *)

Families == {"Huggingface", "Ollama", "OCI", "URL"}

\* the prefixes that name each family's transport
FamilyPrefixes ==
  [ Huggingface |-> {"huggingface://", "hf://", "hf.co/"},
    Ollama |-> {"ollama://"},
    OCI |-> {"oci://", "docker://"},
    URL |-> {"http://", "https://", "file://"} ]

\* the reference carries a prefix of the family's transport
Carries(F, ref) ==
  \/ \E p \in FamilyPrefixes[F] : StartsWith(ref, p)
  \/ F = "Ollama" /\ Contains(ref, "ollama.com/library/")

CarriedBy(ref) == { F \in Families : Carries(F, ref) }

\* the priority of the families in New
Priority == [Huggingface |-> 1, Ollama |-> 2, OCI |-> 3, URL |-> 4]

FirstCarried(ref) ==
  CHOOSE F \in CarriedBy(ref) : \A G \in CarriedBy(ref) : Priority[F] <= Priority[G]

\* run_cli ran and New returned a backend of the given type
Resolved(type) == calls # <<>> /\ calls[1].op = "run" /\ calls[1].target.type = type

\* C1 as stated: a reference that carries a transport prefix resolves to the
\* backend of that prefix's transport, whatever the default transport is.
C1_Original ==
  cmd = "run" => \A F \in CarriedBy(args.MODEL) : Resolved(F)

\* C1 amended: a reference that carries a transport prefix resolves to the
\* backend of the first family, in the order Huggingface, Ollama, OCI, URL,
\* whose prefix it carries, whatever the default transport is (an oci://,
\* docker://, http://, https:// or file:// reference that contains
\* ollama.com/library/ resolves to Ollama).
C1_FirstCarriedPrefixWins ==
  (cmd = "run" /\ CarriedBy(args.MODEL) # {})
    => /\ Resolved(FirstCarried(args.MODEL))
       /\ calls[1].target.model = args.MODEL
       /\ outcome.exc # "KeyError"

\* C1 witness: an oci:// reference resolved to OCI although the default
\* transport is an unsupported one.
C1_Witness ==
  /\ cmd = "run"
  /\ args.MODEL = "oci://tiny"
  /\ TransportOf(config) = "rsync"
  /\ Resolved("OCI")

\* the backend each supported default transport stands for
TransportBackend == [huggingface |-> "Huggingface", ollama |-> "Ollama", oci |-> "OCI"]

\* C2: a reference that matches no recognized prefix resolves to the backend
\* of the default transport, and New fails, with the error that names the
\* transport, exactly when the transport is none of huggingface, ollama, oci.
C2_DefaultTransportFallback ==
  (cmd = "run" /\ CarriedBy(args.MODEL) = {})
    => LET t == TransportOf(config)
       IN /\ t \in DOMAIN TransportBackend =>
               /\ Resolved(TransportBackend[t])
               /\ calls[1].target.model = args.MODEL
          /\ outcome.exc = "KeyError" <=> t \notin DOMAIN TransportBackend
          /\ outcome.exc = "KeyError" =>
               /\ calls = <<>>
               /\ outcome.msg = "transport \"" \o t
                    \o "\" not supported. Must be oci, huggingface, or ollama."

\* C2 witness: a bare name under an unsupported default transport failed
\* with the error naming it.
C2_Witness ==
  /\ cmd = "run"
  /\ args.MODEL = "my/hf://tiny"
  /\ TransportOf(config) = "rsync"
  /\ outcome.exc = "KeyError"
  /\ Contains(outcome.msg, "\"rsync\"")

\* the prefix tests of New that a reference matches
Matching(ref) ==
  {F \in Families :
     \/ F = "Huggingface" /\ is_huggingface(ref)
     \/ F = "Ollama" /\ is_ollama(ref)
     \/ F = "OCI" /\ is_oci(ref)
     \/ F = "URL" /\ is_url(ref)}

\* C3 as stated: at most one of the four prefix tests matches a reference.
C3_Original ==
  cmd = "run" => Cardinality(Matching(args.MODEL)) <= 1

\* C3 amended: the four tests are mutually exclusive except for the Ollama
\* substring test: a reference that contains ollama.com/library/ may also
\* match one of the Huggingface, OCI or URL prefix tests, and then the order
\* of the tests decides: Huggingface wins over Ollama, Ollama over OCI and
\* URL.
C3_OverlapOnlyWithOllamaSubstring ==
  (cmd = "run" /\ Cardinality(Matching(args.MODEL)) > 1)
    => /\ Cardinality(Matching(args.MODEL)) = 2
       /\ "Ollama" \in Matching(args.MODEL)
       /\ Contains(args.MODEL, "ollama.com/library/")
       /\ ~StartsWith(args.MODEL, "ollama://")
       /\ IF "Huggingface" \in Matching(args.MODEL)
          THEN Resolved("Huggingface") ELSE Resolved("Ollama")

\* C3 witness: an https:// reference under ollama.com/library/ matches the
\* Ollama and the URL test and resolved to Ollama.
C3_Witness ==
  /\ cmd = "run"
  /\ args.MODEL = "https://ollama.com/library/tiny"
  /\ Matching(args.MODEL) = {"Ollama", "URL"}
  /\ Resolved("Ollama")


-----------------------------------------------------------------------------
(* Properties of removal (under Spec, through rm_cli).                     *)

Missing == Raise("KeyError", "missing")

\* rm ran on names that all carry oci:// and whose removal the OCI backend
\* reports as missing
RmOfMissingOci ==
  /\ cmd = "rm"
  /\ ~args.all
  /\ Len(args.MODEL) >= 1
  /\ \A i \in 1..Len(args.MODEL) :
       /\ StartsWith(args.MODEL[i], "oci://")
       /\ ext.rm[i].remove = Missing

\* C6: removing a name with an explicit oci:// prefix that the OCI backend
\* reports as missing raises that failure when ignore is not set, and
\* returns normally when ignore is set.
C6_MissingOciRemoval ==
  RmOfMissingOci =>
    IF args.ignore THEN outcome = OK
    ELSE /\ outcome = Missing
         /\ Len(calls) = 1
         /\ calls[1] = Call("remove", Backend("OCI", args.MODEL[1], args.engine), <<>>)

\* C6 witness: with ignore set, a missing oci:// model whose removal as a
\* container image fails too ends without an error.
C6_Witness ==
  /\ RmOfMissingOci
  /\ args.ignore
  /\ ext.rm[1].oci_remove # OK
  /\ Len(calls) = 2
  /\ outcome = OK

-----------------------------------------------------------------------------
(* Properties of push (under Spec, through push_cli).                      *)

IsPushCall(c) == c.op = "push"
PushCalls == SelectSeq(calls, IsPushCall)

\* the backend's push was called, and the target it was resolved from
Pushed == PushCalls # <<>>
PushedTarget == PushCalls[1].target.model

\* the push through the OCI backend was attempted after the backend's own
FallbackAttempted ==
  /\ Len(PushCalls) = 2
  /\ PushCalls[2].target = Backend("OCI", PushedTarget, config["engine"])

NotSupported == Raise("NotImplementedError", "")

\* C7 as stated: the OCI fallback push is attempted exactly when the
\* backend's push signals not-supported and the target carries none of the
\* recognized transport prefixes; every other failure propagates with no
\* OCI push attempted.
C7_Original ==
  cmd = "push" =>
    /\ FallbackAttempted <=>
         (Pushed /\ ext.pushed = NotSupported /\ CarriedBy(PushedTarget) = {})
    /\ (Pushed /\ ext.pushed # OK /\ ~FallbackAttempted) => outcome = ext.pushed

\* C7 amended: the OCI fallback push is attempted exactly when the backend's
\* push signals not-supported and the target starts with none of the
\* prefixes "<type>://" of MODEL_TYPES (a target recognized by hf.co/ or by
\* containing ollama.com/library/ does get the fallback); every other
\* failure, an unsupported-transport failure of the resolution included,
\* propagates unchanged with no OCI push attempted; and a fallback that
\* fails raises the original not-supported failure.
C7_FallbackUnlessSchemePrefix ==
  cmd = "push" =>
    /\ FallbackAttempted <=>
         /\ Pushed
         /\ ext.pushed = NotSupported
         /\ ~\E i \in 1..Len(MODEL_TYPES) : StartsWith(PushedTarget, MODEL_TYPES[i] \o "://")
    /\ ~FallbackAttempted => Len(PushCalls) <= 1
    /\ (Pushed /\ ext.pushed # OK /\ ~FallbackAttempted) => outcome = ext.pushed
    /\ (FallbackAttempted /\ ext.oci_pushed # OK) => outcome = NotSupported
    /\ (FallbackAttempted /\ ext.oci_pushed = OK) => outcome = OK
    /\ outcome.exc = "KeyError" => ~Pushed

\* C7 witness: a target recognized by hf.co/ whose Huggingface push is not
\* supported was pushed again as a container image.
C7_Witness ==
  /\ cmd = "push"
  /\ Pushed
  /\ PushedTarget = "hf.co/tiny"
  /\ PushCalls[1].target.type = "Huggingface"
  /\ ext.pushed = NotSupported
  /\ FallbackAttempted
  /\ outcome = OK

-----------------------------------------------------------------------------
(* Properties of stop (under Spec, through stop_container).                *)

\* C8: stop with --all and an explicit NAME raises the usage error before
\* any engine subprocess is run: neither ps nor stop has been called.
C8_AllWithNameRejectedFirst ==
  (cmd = "stop" /\ args.all /\ Truthy(args.NAME))
    => /\ outcome = Raise("ValueError",
                          "specifying --all and container name, " \o args.NAME.v
                            \o ", not allowed")
       /\ calls = <<>>

\* C8 witness: --all with the name c1 on a working engine with containers
\* to stop ended in the usage error.
C8_Witness ==
  /\ cmd = "stop"
  /\ args.all
  /\ args.NAME = PyStr("c1")
  /\ args.engine = PyStr("podman")
  /\ ext.ps = Stdout(PsOutput(MaxContainers))
  /\ outcome.exc = "ValueError"
  /\ calls = <<>>

\* C9 as stated: stopping one container on a configured engine, with ignore
\* requested podman is passed --ignore; every other engine has stderr
\* silenced and a failing stop swallowed; without ignore every failing stop
\* propagates.
C9_Claim ==
  (cmd = "stop" /\ ~args.all /\ Truthy(args.NAME) /\ Truthy(args.engine))
    => /\ Len(calls) = 1
       /\ (args.ignore /\ args.engine = PyStr("podman")) =>
            \E i \in 1..Len(calls[1].argv) : calls[1].argv[i] = "--ignore"
       /\ (args.ignore /\ args.engine # PyStr("podman")) =>
            /\ calls[1].op = "run_cmd(ignore_stderr)"
            /\ ext.stops[1].exc = "CalledProcessError" => outcome = OK
       /\ (~args.ignore /\ ext.stops[1] # OK) => outcome = ext.stops[1]

-----------------------------------------------------------------------------
(* Properties of the listing (under Spec, through list_cli).               *)

IsRow(l) == l.kind = "row"
Rows == SelectSeq(printed, IsRow)

\* C10 as stated: in non-JSON mode the rows of the merged listing are
\* printed in ascending lexicographic order of entry name.
C10_Claim ==
  (cmd = "list" /\ ~args.json /\ outcome = OK)
    => \A i, j \in 1..Len(Rows) : i < j => ~StrLess(Rows[j].name, Rows[i].name)


-----------------------------------------------------------------------------
(* human_duration on its own: the durations are the values around every    *)
(* threshold of the function and the values the specification names.       *)

\* how far around a threshold the durations reach
Window == 2

Thresholds ==
  << 1, 60, 120, 3600, 7200, 86400, 172800, 604800, 1209600, 2419200,
     4838400, 31536000, 63072000 >>

Examples == { 0, 1, 59, 3661, 90000, 31536001 }

Durations ==
  Examples \cup
  { d \in UNION { (Thresholds[i] - Window)..(Thresholds[i] + Window) :
                  i \in 1..Len(Thresholds) } : d >= 0 }

InitDuration ==
  /\ config = EmptyDict
  /\ cmd = ""
  /\ \E d \in Durations : args = [d |-> d]
  /\ ext = NoExt
  /\ outcome = OK
  /\ calls = <<>>
  /\ printed = <<>>

\* one call human_duration(d); the label is recorded as a printed line
HumanDuration ==
  /\ cmd = ""
  /\ cmd' = "human_duration"
  /\ printed' = <<Line("label", human_duration(args.d), "")>>
  /\ UNCHANGED <<config, args, ext, outcome, calls>>

NextDuration == HumanDuration

SpecDuration == InitDuration /\ [][NextDuration]_vars

\* the units of the labels with their length in seconds, shortest first
Units ==
  << [name |-> "second", size |-> 1], [name |-> "minute", size |-> 60],
     [name |-> "hour", size |-> 3600], [name |-> "day", size |-> 86400],
     [name |-> "week", size |-> 604800], [name |-> "month", size |-> 2419200],
     [name |-> "year", size |-> 31536000] >>

\* the label of a duration: below 1 the fixed text; else the longest unit
\* the duration has reached, singular below twice the unit, counted from it
BandLabel(d) ==
  IF d < 1 THEN "Less than a second"
  ELSE LET u == Units[Cardinality({ i \in 1..Len(Units) : Units[i].size <= d })]
           n == d \div u.size
       IN IF n = 1 THEN "1 " \o u.name
          ELSE IntToStr(n) \o " " \o u.name \o "s"

Label == printed[1].text

\* C11: human_duration gives every non-negative duration the one label of
\* its band, the bands being cut at the thresholds 1, 60, 120, ..., 63072000:
\* the named examples get their labels, and the value just below a threshold
\* is labelled by the lower band, the value at it by the upper band.
C11_OneLabelPerBand ==
  cmd = "human_duration" =>
    /\ Label = BandLabel(args.d)
    /\ args.d = 0 => Label = "Less than a second"
    /\ args.d = 1 => Label = "1 second"
    /\ args.d = 59 => Label = "59 seconds"
    /\ args.d = 3661 => Label = "1 hour"
    /\ args.d = 90000 => Label = "1 day"
    /\ args.d = 31536001 => Label = "1 year"
    /\ \A i \in 1..Len(Thresholds) :
         /\ args.d = Thresholds[i] - 1 => Label = BandLabel(Thresholds[i] - 1)
         /\ args.d = Thresholds[i] =>
              /\ Label = BandLabel(Thresholds[i])
              /\ Label # human_duration(Thresholds[i] - 1)

C11_Witness ==
  /\ cmd = "human_duration"
  /\ args.d = 63072000
  /\ Label = "2 years"



-----------------------------------------------------------------------------
(* Properties of the info command (under Spec, through info_cli).          *)

\* info ran with an engine configured, so the engine's info was asked
InfoAsked == cmd = "info" /\ Truthy(args.engine) /\ Len(args.engine.v) > 0

ValidJson(answer) == answer.exc = "" /\ json_loads(Strip(answer.msg)).exc = ""

\* the snapshot was printed, as the one line of output
Snapshot == Len(printed) = 1 /\ printed[1].kind = "json"

\* C12 as stated: whatever the engine's info answers (binary missing,
\* nonzero exit, empty output, valid JSON), info_cli completes and prints its
\* snapshot, and a missing binary is reported as the error string in the
\* Engine Info field.
C12_Claim ==
  ( /\ InfoAsked
    /\ \/ ext.info.exc \in {"FileNotFoundError", "CalledProcessError"}
       \/ ext.info.exc = "" /\ Strip(ext.info.msg) = ""
       \/ ValidJson(ext.info) )
  => /\ outcome = OK
     /\ Snapshot
     /\ ext.info.exc = "FileNotFoundError"
          => Contains(printed[1].text, "\"Info\": \"" \o ext.info.msg \o "\"")



-----------------------------------------------------------------------------
(* Properties of the engine adapter without an engine (under Spec, through *)
(* list_containers and stop_container).                                    *)

NoEngine == args.engine = PyStr("") \/ args.engine = PyNone

NoManager == Raise("ValueError", "no container manager (Podman, Docker) found")

\* the run reached _list_containers or _stop_container: a containers
\* listing, a stop of a named container, or a stop --all without a name
ReachedEngine ==
  \/ cmd = "containers"
  \/ cmd = "stop" /\ ~args.all /\ Truthy(args.NAME)
  \/ cmd = "stop" /\ args.all /\ ~Truthy(args.NAME)

\* C13 as stated: with no engine configured (the empty string or None) the
\* containers listing and stop, of one name and of all, fail with the "no
\* container manager" error and spawn no engine subprocess.
C13_Claim ==
  (ReachedEngine /\ NoEngine) => (outcome = NoManager /\ calls = <<>>)



-----------------------------------------------------------------------------
(* Properties of removal over several names (under Spec, through rm_cli    *)
(* and rm_cli_all).                                                        *)

\* the listing rm --all gathered
Gathered == list_models(config, args, ext.store, ext.cleanup, ext.oci)

\* the names _rm_model was given, shortnames expanded
Requested ==
  LET names == IF args.all THEN names_of(Gathered.models) ELSE args.MODEL
  IN [ i \in 1..Len(names) |->
         IF Truthy(resolve(ext.shortnames, names[i]))
         THEN resolve(ext.shortnames, names[i]).v ELSE names[i] ]

\* the calls _rm_model made: those after the calls of the listing
RmCalls ==
  IF args.all THEN SubSeq(calls, Len(Gathered.calls) + 1, Len(calls)) ELSE calls

\* _rm_model ran to its end without an unignored failure
RmWithoutFailure ==
  /\ cmd = "rm"
  /\ outcome = OK
  /\ args.all => (Len(args.MODEL) = 0 /\ Gathered.exc = OK)

\* every requested name has a removal attempt of its own, in the order of
\* the names
AllAttemptedInOrder ==
  \E f \in [1..Len(Requested) -> 1..Len(RmCalls)] :
    /\ \A i, j \in 1..Len(Requested) : i < j => f[i] < f[j]
    /\ \A i \in 1..Len(Requested) :
         /\ RmCalls[f[i]].op = "remove"
         /\ RmCalls[f[i]].target.model = Requested[i]

\* C14 as stated: _rm_model attempts every requested name in order up to
\* the first unignored failure, so when no failure goes unignored every
\* name, of the arguments or of the listing of rm --all, is attempted.
C14_Claim == RmWithoutFailure => AllAttemptedInOrder



-----------------------------------------------------------------------------
(* load_config on its own: the four main files exist or not, and the .d    *)
(* directories of the first and the last path hold up to MaxDropins files  *)
(* in any directory order.                                                 *)

MaxDropins == 2

\* the table of a file: the keys it sets, each to a value naming the file
TableOf(keys, id) == [ k \in keys |-> PyStr(k \o "@" \o id) ]

MainTables ==
  << TableOf({"engine", "image"}, "usr"), TableOf({"image", "store"}, "local"),
     TableOf({"engine"}, "etc"), TableOf({"store", "transport"}, "home") >>

DropinPool ==
  { ConfFile("10-a.conf", TableOf({"engine", "runtime"}, "10-a")),
    ConfFile("20-b.conf", TableOf({"engine", "image"}, "20-b")),
    ConfFile("05-c.txt", TableOf({"store"}, "05-c")) }

DropinDirs == { d \in SeqsUpTo(DropinPool, MaxDropins) : Distinct(d) }

LoadFSs ==
  { [ explicit |-> TableOf({"engine"}, "explicit"),
      main |-> [ i \in 1..NumPaths |-> IF i \in present THEN <<MainTables[i]>> ELSE Absent ],
      dropins |-> <<d1, NoDropins, NoDropins, d4>> ] :
    present \in SUBSET (1..NumPaths), d1 \in DropinDirs, d4 \in DropinDirs }

LoadEnvs == { [n \in {} |-> ""], [n \in {"RAMALAMA_CONFIG"} |-> "/explicit.conf"] }

InitLoadConfig ==
  /\ config = EmptyDict
  /\ cmd = ""
  /\ args = NoArgs
  /\ ext \in [env : LoadEnvs, fs : LoadFSs]
  /\ outcome = OK
  /\ calls = <<>>
  /\ printed = <<>>

\* one call load_config()
LoadConfig ==
  /\ cmd = ""
  /\ config' = load_config(ext.env, ext.fs)
  /\ cmd' = "load_config"
  /\ UNCHANGED <<args, ext, outcome, calls, printed>>

NextLoadConfig == LoadConfig

SpecLoadConfig == InitLoadConfig /\ [][NextLoadConfig]_vars

\* the files load_config reads without RAMALAMA_CONFIG: the existing main
\* files and the *.conf files of the .d directories
FilesRead ==
  { [path |-> i, dropin |-> FALSE, name |-> "", table |-> ext.fs.main[i][1]] :
      i \in { p \in 1..NumPaths : ext.fs.main[p] # Absent } }
  \cup
  UNION { { [path |-> i, dropin |-> TRUE, name |-> ext.fs.dropins[i][n].name,
             table |-> ext.fs.dropins[i][n].table] :
            n \in { m \in 1..Len(ext.fs.dropins[i]) :
                      EndsWith(ext.fs.dropins[i][m].name, ".conf") } } :
          i \in 1..NumPaths }

\* f is read before g: an earlier path; or the main file before the
\* drop-ins of its path; or the lexicographically smaller drop-in name
ReadBefore(f, g) ==
  \/ f.path < g.path
  \/ f.path = g.path /\ ~f.dropin /\ g.dropin
  \/ f.path = g.path /\ f.dropin /\ g.dropin /\ StrLess(f.name, g.name)

Setting(k) == { f \in FilesRead : k \in DOMAIN f.table }

\* C15: without RAMALAMA_CONFIG the file-derived configuration has exactly
\* the keys some read file sets, each with the value of the last file that
\* sets it, in the order: per path, the main file and then its .d/*.conf
\* files by filename.
C15_KeyWiseMergeInOrder ==
  (cmd = "load_config" /\ "RAMALAMA_CONFIG" \notin DOMAIN ext.env) =>
    /\ DOMAIN config = UNION { DOMAIN f.table : f \in FilesRead }
    /\ \A k \in DOMAIN config :
         \E f \in Setting(k) :
           /\ config[k] = f.table[k]
           /\ \A g \in Setting(k) : g = f \/ ReadBefore(g, f)

\* C15 witness: the drop-ins of the last path listed against their filename
\* order, over main files of an earlier and of the same path; a key of an
\* earlier file alone survives.
C15_Witness ==
  /\ cmd = "load_config"
  /\ "RAMALAMA_CONFIG" \notin DOMAIN ext.env
  /\ ext.fs.main[1] # Absent /\ ext.fs.main[3] # Absent /\ ext.fs.main[4] # Absent
  /\ Len(ext.fs.dropins[4]) = 2
  /\ ext.fs.dropins[4][1].name = "20-b.conf"
  /\ ext.fs.dropins[4][2].name = "10-a.conf"
  /\ config["engine"] = PyStr("engine@20-b")
  /\ config["runtime"] = PyStr("runtime@10-a")
  /\ config["store"] = PyStr("store@home")



-----------------------------------------------------------------------------
(* Properties of stop --all (under Spec, through stop_container).          *)

\* stop --all ran on a configured engine whose ps succeeded
StopAllRan ==
  /\ cmd = "stop"
  /\ args.all
  /\ ~Truthy(args.NAME)
  /\ Truthy(args.engine)
  /\ ext.ps.exc = ""

\* the names the engine's ps returned
Listed ==
  PsNames(CHOOSE k \in 0..MaxContainers : ext.ps = Stdout(PsOutput(k)))

\* every stop either succeeds or finds its container gone: podman, given
\* --ignore, exits with success for a missing container, every other engine
\* with a nonzero status
OnlyGone ==
  \A i \in 1..Len(Listed) :
    \/ ext.stops[i] = OK
    \/ args.engine # PyStr("podman") /\ ext.stops[i].exc = "CalledProcessError"

\* the i-th stop was issued for the i-th name with ignore in force
StoppedWithIgnore(i) ==
  LET c == calls[1 + i]
  IN /\ c.argv[1] = args.engine.v
     /\ c.argv[2] = "stop"
     /\ c.argv[Len(c.argv)] = Listed[i]
     /\ IF args.engine = PyStr("podman")
        THEN c.argv[4] = "--ignore" /\ c.op = "run_cmd"
        ELSE c.op = "run_cmd(ignore_stderr)"

\* C16 as stated: stop --all lists the containers once with the name-only
\* format and stops each returned name once, in listing order, with ignore
\* in force; containers that are gone when their stop is issued do not make
\* it fail, on any configured engine.
C16_Claim ==
  (StopAllRan /\ OnlyGone) =>
    /\ outcome = OK
    /\ Len(calls) = 1 + Len(Listed)
    /\ calls[1].argv[2] = "ps"
    /\ calls[1].argv[Len(calls[1].argv)] = "--format={{ .Names }}"
    /\ \A i \in 1..Len(Listed) : StoppedWithIgnore(i)



-----------------------------------------------------------------------------
(* Properties of the cleanup during listing (under Spec, through list_cli). *)

\* the dangling links of the listed store
DanglingLinks ==
  { i \in 1..Len(ext.store.entries) : ext.store.entries[i].kind = "dangling" }

\* the names of the store's links that are not dangling
LocalNames ==
  { IF StartsWith(ext.store.entries[i].path, "file/")
    THEN Replace1(ext.store.entries[i].path, "/", ":///")
    ELSE Replace1(ext.store.entries[i].path, "/", "://") :
      i \in { j \in 1..Len(ext.store.entries) : ext.store.entries[j].kind = "link" } }

OciNames == { ext.oci[i].name : i \in 1..Len(ext.oci) }

IsCleanup(c) == c.op = "remove"

\* the listing shows the name: as a row, or inside the JSON text
Shows(name) ==
  IF args.json
  THEN /\ Len(printed) >= 1
       /\ Contains(printed[Len(printed)].text, "\"name\": \"" \o name \o "\"")
  ELSE \E i \in 1..Len(Rows) : Rows[i].name = name

\* C17 as stated: listing attempts the removal of the model behind every
\* dangling link of the store, links under file/ included, and whatever the
\* removals answer it goes on: the listing completes and shows every
\* non-dangling local model and every OCI entry.
C17_Claim ==
  (cmd = "list" /\ DanglingLinks # {}) =>
    /\ Len(SelectSeq(calls, IsCleanup)) = Cardinality(DanglingLinks)
    /\ outcome = OK
    /\ \A name \in LocalNames \cup OciNames : Shows(name)



-----------------------------------------------------------------------------
(* Properties of _list_containers (under Spec, through list_containers and *)
(* stop_container).                                                        *)

IsPs(c) == Len(c.argv) >= 2 /\ c.argv[2] = "ps"

\* the engine exited with success and printed nothing but white space
EmptyPs == ext.ps.exc = "" /\ ext.ps.msg \in {"", "\n"}

\* C18: every ps command _list_containers issues carries --filter
\* label=ai.ramalama, whatever the noheading, no-trunc and format flags are;
\* and on a successful exit with empty output its result is the empty
\* sequence: the containers listing ends after that one command and prints
\* nothing, and stop --all ends with success and stops nothing.
C18_FilteredAndEmptyOnNoOutput ==
  /\ cmd \in {"containers", "stop"} =>
       \A i \in 1..Len(calls) :
         IsPs(calls[i]) =>
           \E k \in 1..(Len(calls[i].argv) - 1) :
             /\ calls[i].argv[k] = "--filter"
             /\ calls[i].argv[k + 1] = "label=ai.ramalama"
  /\ (cmd = "containers" /\ Truthy(args.engine) /\ EmptyPs) =>
       /\ outcome = OK
       /\ printed = <<>>
       /\ Len(calls) = 1 /\ IsPs(calls[1])
  /\ (cmd = "stop" /\ args.all /\ ~Truthy(args.NAME) /\ Truthy(args.engine) /\ EmptyPs) =>
       /\ outcome = OK
       /\ Len(calls) = 1 /\ IsPs(calls[1])

\* C18 witness: a containers listing with every flag set, on an engine that
\* prints an empty line, issued one filtered ps and printed nothing.
C18_Witness ==
  /\ cmd = "containers"
  /\ args.noheading /\ args.notrunc /\ Truthy(args.format)
  /\ ext.ps = Stdout("\n")
  /\ calls = << RunCmd(<< args.engine.v, "ps", "-a", "--filter", "label=ai.ramalama",
                         "--noheading", "--no-trunc", "--format={{ .Names }}" >>, FALSE) >>
  /\ printed = <<>>
  /\ outcome = OK



-----------------------------------------------------------------------------
(* Properties of normalize_registry (under Spec, through login_cli and     *)
(* logout_cli).                                                            *)

\* C19 as stated: normalize_registry gives "oci://" for an absent or empty
\* registry and for one that starts with oci://, gives ollama, hf and
\* huggingface back unchanged, and "oci://" + registry for any other; the
\* reference login and logout resolve is that result.
C19_Claim ==
  cmd \in {"login", "logout"} =>
    LET registry == args.REGISTRY
        expected ==
          IF registry = PyNone \/ registry = PyStr("") \/ StartsWith(registry.v, "oci://")
          THEN "oci://"
          ELSE IF registry.v \in {"ollama", "hf", "huggingface"} THEN registry.v
          ELSE "oci://" \o registry.v
    IN /\ normalize_registry(registry) = expected
       /\ calls # <<>> => calls[1].target.model = expected


=============================================================================
